---------------------------- MODULE Spec2Model ----------------------------
(***************************************************************************)
(* Job orchestration of the UniviDown server (src/server.js): the FIFO     *)
(* download queue with its concurrency ceiling, the per-job supervision of *)
(* the yt-dlp / ffmpeg worker processes (cancel, 30 minute timeout), and   *)
(* the progress map.                                                       *)
(*                                                                         *)
(* Node runs every handler to completion, and the promise continuations it *)
(* queues run before the next event is dispatched.  One action of this     *)
(* module is therefore one event-loop turn: the handler of one event (an   *)
(* HTTP request, a child-process event, a timer) together with every       *)
(* continuation it makes runnable.  Handlers are written as operators from *)
(* a state record s to the state record after the call; Commit(s) installs *)
(* the record in the variables.                                            *)
(*                                                                         *)
(* What is left out: the type / format / startedAt fields of a progress    *)
(* record, the percentage inside a progress message, the removal of        *)
(* downloads older than 24 hours, and failures of the file system calls    *)
(* (statSync, mkdirSync, copyFileSync, rmSync are taken to succeed).       *)
(*                                                                         *)
(* POST /api/info, the graceful shutdown and waitForServer of the Electron *)
(* main process (src/unnamed/part_002) have their own variables.           *)
(***************************************************************************)
EXTENDS Integers, Sequences, FiniteSets, TLC

\* Number of submissions in a run of QueueSpec (the queue under video jobs).
MaxJobs == 4

\* Number of submissions in a run of Spec (every kind of job and event).
MaxDetailed == 2

\* Recognised lines in one chunk of yt-dlp output.
MaxChunkLines == 1

\* CONFIG.MAX_CONCURRENT_DOWNLOADS
MAX_CONCURRENT_DOWNLOADS == 2

Jobs == 1..MaxJobs

\* SSE connections opened in a run of SseSpec, PushSpec or ClockSpec.
MaxClients == 2

Clients == 1..MaxClients

\* Percentages read from "[download]  NN.N%" lines.  Multiples of 20, so that
\* the products with 0.85 and 0.80 are whole numbers and \div is exact.
Percents == {20, 100}

\* "[download] Downloading item C of T" lines of a playlist download: item 4
\* of a source of 64 items (with the Percents, the progress is a whole number).
PlaylistItems == {<<4, 64>>}

None == 0 - 1

Terminal == {"finished", "error", "cancelled"}

\* The options of a job the orchestration depends on: the type, the merge
\* flag and whether the URL contains "playlist?list=".
JobOptions ==
    { [type |-> "video", merge |-> FALSE, playlist |-> FALSE],
      [type |-> "audio", merge |-> FALSE, playlist |-> FALSE],
      [type |-> "audio", merge |-> TRUE,  playlist |-> FALSE],
      [type |-> "audio", merge |-> TRUE,  playlist |-> TRUE] }

NoOptions == [type |-> "none", merge |-> FALSE, playlist |-> FALSE]

\* A child process handle: state, the handle's `killed` flag and the signals
\* delivered to the process.
NoHandle == [state |-> "none", killed |-> FALSE, signals |-> {}]
Spawned == [state |-> "running", killed |-> FALSE, signals |-> {}]

NoResponse == [code |-> 0, message |-> ""]

\* POST /api/info requests in a run of InfoSpec.
MaxInfo == 2

InfoRequests == 1..MaxInfo

\* The closure of an /api/info request: the state of the request, isPlaylist,
\* the worker, the `responded` flag, whether the 30 second timer is pending,
\* whether the worker's 'error' has been emitted, and the status codes of the
\* responses sent.
NoInfo ==
    [state |-> "none", isPlaylist |-> FALSE, ytdlp |-> NoHandle, responded |-> FALSE,
     timeout |-> FALSE, errored |-> FALSE, sent |-> <<>>]

\* The closure of waitForServer: maxAttempts, attempts, the pending
\* setTimeout(checkServer) timers, the requests in flight, the requests made,
\* and the state of the promise.
NoWait ==
    [maxAttempts |-> 0, attempts |-> 0, scheduled |-> 0, inflight |-> 0,
     polls |-> 0, promise |-> "none"]

VARIABLES
    nextId,                 \* submissions made so far + 1 (uuidv4: never reused)
    activeDownloads,
    downloadQueue,          \* sequence of job ids
    downloadProgress,       \* map: job id -> progress record
    activeProcesses,        \* map: job id -> processInfo
    downloadTimeouts,       \* keys of the downloadTimeouts map
    progressCleanupTimers,  \* jobs with a pending progress cleanup timer
    timers,                 \* job id -> pending 30 minute timers
    killTimers,             \* jobs with a pending 5 second force-kill timer
    ytdlp,                  \* job id -> handle of the yt-dlp download process
    ffmpeg,                 \* job id -> handle of the ffmpeg merge process
    tempDirs,               \* jobs whose scratch directory exists on disk
    options,                \* job id -> options captured by the task thunk
    pc,                     \* job id -> position of the job's task
    playlist,               \* job id -> <<currentVideo, totalVideos>>
    started,                \* history: job ids in the order their tasks were invoked
    cancelAcked,            \* history: jobs whose cancel while active returned success
    response,               \* the HTTP response sent by the last step
    cleanupTimers,          \* job id -> pending progress cleanup timers
    sseClients,             \* map: job id -> set of registered SSE connections
    frames,                 \* connection -> the data frames written to it
    conn,                   \* connection -> its state, the job id it asked for, and
                            \*   whether its heartbeat interval is set
    viaStarting,            \* history: jobs whose record went from queued to starting
    discarded,              \* history: unsettled jobs with a chunk of output dropped
    now,                    \* Date.now()
    pushed,                 \* the <<id, record>> handed to a broadcast loop by the last step
    preFinished,            \* history: job id -> the status that finished replaced
    downloadsDir,           \* the files of the downloads folder, newest first
    info,                   \* /api/info request -> its closure and the responses sent
    exited,                 \* process.exit was called
    wait                    \* the closure of waitForServer

vars == <<nextId, activeDownloads, downloadQueue, downloadProgress, activeProcesses,
          downloadTimeouts, progressCleanupTimers, timers, killTimers, ytdlp, ffmpeg,
          tempDirs, options, pc, playlist, started, cancelAcked, response,
          cleanupTimers, sseClients, frames, conn, viaStarting, discarded,
          now, pushed, preFinished, downloadsDir, info, exited, wait>>

\* The state as one record.
Cur ==
    [nextId |-> nextId, activeDownloads |-> activeDownloads,
     downloadQueue |-> downloadQueue, downloadProgress |-> downloadProgress,
     activeProcesses |-> activeProcesses, downloadTimeouts |-> downloadTimeouts,
     progressCleanupTimers |-> progressCleanupTimers, timers |-> timers,
     killTimers |-> killTimers, ytdlp |-> ytdlp, ffmpeg |-> ffmpeg,
     tempDirs |-> tempDirs, options |-> options, pc |-> pc, playlist |-> playlist,
     started |-> started, cancelAcked |-> cancelAcked, response |-> NoResponse,
     cleanupTimers |-> cleanupTimers, sseClients |-> sseClients, frames |-> frames,
     conn |-> conn, viaStarting |-> viaStarting, discarded |-> discarded,
     now |-> now, pushed |-> <<>>, preFinished |-> preFinished,
     downloadsDir |-> downloadsDir, info |-> info, exited |-> exited, wait |-> wait]

Commit(s) ==
    /\ nextId' = s.nextId
    /\ activeDownloads' = s.activeDownloads
    /\ downloadQueue' = s.downloadQueue
    /\ downloadProgress' = s.downloadProgress
    /\ activeProcesses' = s.activeProcesses
    /\ downloadTimeouts' = s.downloadTimeouts
    /\ progressCleanupTimers' = s.progressCleanupTimers
    /\ timers' = s.timers
    /\ killTimers' = s.killTimers
    /\ ytdlp' = s.ytdlp
    /\ ffmpeg' = s.ffmpeg
    /\ tempDirs' = s.tempDirs
    /\ options' = s.options
    /\ pc' = s.pc
    /\ playlist' = s.playlist
    /\ started' = s.started
    /\ cancelAcked' = s.cancelAcked
    /\ response' = s.response
    /\ cleanupTimers' = s.cleanupTimers
    /\ sseClients' = s.sseClients
    /\ frames' = s.frames
    /\ conn' = s.conn
    /\ viaStarting' = s.viaStarting
    /\ discarded' = s.discarded
    /\ now' = s.now
    /\ pushed' = s.pushed
    /\ preFinished' = s.preFinished
    /\ downloadsDir' = s.downloadsDir
    /\ info' = s.info
    /\ exited' = s.exited
    /\ wait' = s.wait

Init ==
    /\ nextId = 1
    /\ activeDownloads = 0
    /\ downloadQueue = <<>>
    /\ downloadProgress = <<>>
    /\ activeProcesses = <<>>
    /\ downloadTimeouts = {}
    /\ progressCleanupTimers = {}
    /\ timers = [j \in Jobs |-> 0]
    /\ killTimers = {}
    /\ ytdlp = [j \in Jobs |-> NoHandle]
    /\ ffmpeg = [j \in Jobs |-> NoHandle]
    /\ tempDirs = {}
    /\ options = [j \in Jobs |-> NoOptions]
    /\ pc = [j \in Jobs |-> "idle"]
    /\ playlist = [j \in Jobs |-> <<0, 0>>]
    /\ started = <<>>
    /\ cancelAcked = {}
    /\ response = NoResponse
    /\ cleanupTimers = [j \in Jobs |-> 0]
    /\ sseClients = <<>>
    /\ frames = [c \in Clients |-> <<>>]
    /\ conn = [c \in Clients |-> [state |-> "new", id |-> 0, heartbeat |-> FALSE]]
    /\ viaStarting = {}
    /\ discarded = {}
    /\ now = 0
    /\ pushed = <<>>
    /\ preFinished = [j \in Jobs |-> "none"]
    /\ downloadsDir = <<>>
    /\ info = [r \in InfoRequests |-> NoInfo]
    /\ exited = FALSE
    /\ wait = NoWait

----------------------------------------------------------------------------
\* Maps

MapSet(m, k, v) == [x \in DOMAIN m \cup {k} |-> IF x = k THEN v ELSE m[x]]

MapDelete(m, k) == [x \in DOMAIN m \ {k} |-> m[x]]

\* { ...currentProgress, ...data }
Merge(cur, data) ==
    [f \in DOMAIN cur \cup DOMAIN data |-> IF f \in DOMAIN data THEN data[f] ELSE cur[f]]

----------------------------------------------------------------------------
\* Progress map

\* scheduleProgressCleanup that leaves the timer of an earlier call pending.
scheduleProgressCleanupNoClear(s, id) ==
    [s EXCEPT !.cleanupTimers[id] = @ + 1,
              !.progressCleanupTimers = @ \cup {id}]

\* clearTimeout of the timer in the map, if any, then a new timer in its place.
scheduleProgressCleanup(s, id) ==
    LET s1 == IF id \in s.progressCleanupTimers
              THEN [s EXCEPT !.cleanupTimers[id] = @ - 1] ELSE s
    IN  [s1 EXCEPT !.cleanupTimers[id] = @ + 1,
                   !.progressCleanupTimers = @ \cup {id}]

\* client.write(message) on a connection: it returns false on one whose peer
\* has stopped reading ("stalled": the data is queued all the same) and throws
\* on a destroyed one ("broken": nothing is queued).
WriteFails(s, c) == s.conn[c].state \in {"stalled", "broken"}

WriteQueues(s, c) == s.conn[c].state # "broken"

\* The loop over the clients of the job, then the removal of the dead ones.
broadcastTo(s, id, newProgress, receivers, deadClients) ==
    LET clients == s.sseClients[id]
        s1 == [s EXCEPT !.frames = [c \in Clients |->
                                       IF c \in receivers /\ WriteQueues(s, c)
                                       THEN Append(@[c], newProgress) ELSE @[c]],
                        !.pushed = Append(@, <<id, newProgress>>),
                        !.conn = [c \in Clients |->
                                     IF c \in deadClients
                                     THEN [@[c] EXCEPT !.state = "ended"] ELSE @[c]]]
    IN  IF clients \ deadClients = {}
        THEN [s1 EXCEPT !.sseClients = MapDelete(@, id)]
        ELSE [s1 EXCEPT !.sseClients[id] = clients \ deadClients]

\* The broadcast that leaves the clients whose write failed in the set.
broadcastKeepDead(s, id, newProgress) ==
    IF id \in DOMAIN s.sseClients /\ s.sseClients[id] # {}
    THEN broadcastTo(s, id, newProgress, s.sseClients[id], {})
    ELSE s

\* The broadcast that writes to one client of the set only.
broadcastToOne(s, id, newProgress) ==
    IF id \in DOMAIN s.sseClients /\ s.sseClients[id] # {}
    THEN broadcastTo(s, id, newProgress,
                     {CHOOSE c \in s.sseClients[id] : TRUE},
                     { c \in s.sseClients[id] : WriteFails(s, c) })
    ELSE s

\* if (clients && clients.size > 0) { clients.forEach(write); prune deadClients }
broadcast(s, id, newProgress) ==
    IF id \in DOMAIN s.sseClients /\ s.sseClients[id] # {}
    THEN broadcastTo(s, id, newProgress, s.sseClients[id],
                     { c \in s.sseClients[id] : WriteFails(s, c) })
    ELSE s

\* updateProgress that keeps the timestamp of the record it merges into.
updateProgressStaleStamp(s, id, data) ==
    LET currentProgress == IF id \in DOMAIN s.downloadProgress
                           THEN s.downloadProgress[id] ELSE <<>>
        newProgress == Merge(Merge(currentProgress, data),
                             [downloadId |-> id,
                              timestamp |-> IF "timestamp" \in DOMAIN currentProgress
                                            THEN currentProgress.timestamp ELSE s.now])
        s1 == [s EXCEPT !.downloadProgress = MapSet(@, id, newProgress)]
        s2 == broadcast(s1, id, newProgress)
    IN  IF "status" \in DOMAIN data /\ data.status \in Terminal
        THEN scheduleProgressCleanup(s2, id) ELSE s2

updateProgress(s, id, data) ==
    LET currentProgress == IF id \in DOMAIN s.downloadProgress
                           THEN s.downloadProgress[id] ELSE <<>>
        newProgress == Merge(Merge(currentProgress, data),
                             [downloadId |-> id, timestamp |-> s.now])
        s1 == [s EXCEPT !.downloadProgress = MapSet(@, id, newProgress),
                        !.preFinished[id] =
                            IF "status" \in DOMAIN data /\ data.status = "finished"
                            THEN IF "status" \in DOMAIN currentProgress
                                 THEN currentProgress.status ELSE "none"
                            ELSE @]
        s2 == broadcast(s1, id, newProgress)
    IN  IF "status" \in DOMAIN data /\ data.status \in Terminal
        THEN scheduleProgressCleanup(s2, id) ELSE s2

\* The callback of the timer scheduleProgressCleanup sets.
ProgressCleanup(id) ==
    /\ cleanupTimers[id] > 0
    /\ Commit([Cur EXCEPT !.cleanupTimers[id] = @ - 1,
                          !.downloadProgress = MapDelete(@, id),
                          !.sseClients = MapDelete(@, id),
                          !.progressCleanupTimers = @ \ {id}])

----------------------------------------------------------------------------
\* GET /api/progress/:id and the close of its connection

UnknownFrame == [status |-> "unknown", message |-> "Download tidak ditemukan"]

\* The handler without the write of the current progress.
subscribeNoSnapshot(s, c, id) ==
    [s EXCEPT !.sseClients = MapSet(@, id,
                  (IF id \in DOMAIN @ THEN @[id] ELSE {}) \cup {c}),
              !.conn[c] = [state |-> "open", id |-> id, heartbeat |-> TRUE]]

\* res.write of the current progress (or of the unknown frame), then the
\* registration of the connection.
subscribe(s, c, id) ==
    LET frame == IF id \in DOMAIN s.downloadProgress
                 THEN s.downloadProgress[id] ELSE UnknownFrame
    IN  [s EXCEPT !.frames[c] = Append(@, frame),
                  !.sseClients = MapSet(@, id,
                      (IF id \in DOMAIN @ THEN @[id] ELSE {}) \cup {c}),
                  !.conn[c] = [state |-> "open", id |-> id, heartbeat |-> TRUE]]

Subscribe(c, id) ==
    /\ conn[c].state = "new"
    /\ Commit(subscribe(Cur, c, id))

\* cleanupSSEClient that leaves the set in the map when it is empty.
cleanupSSEClientKeepsSet(s, id, c) ==
    IF id \in DOMAIN s.sseClients
    THEN [s EXCEPT !.sseClients[id] = @ \ {c}]
    ELSE s

cleanupSSEClient(s, id, c) ==
    IF id \in DOMAIN s.sseClients
    THEN IF s.sseClients[id] \ {c} = {}
         THEN [s EXCEPT !.sseClients = MapDelete(@, id)]
         ELSE [s EXCEPT !.sseClients[id] = @ \ {c}]
    ELSE s

\* req.on('close') / req.on('error')
Unsubscribe(c) ==
    /\ conn[c].state \in {"open", "stalled", "broken", "ended"}
    /\ Commit([cleanupSSEClient(Cur, conn[c].id, c)
                   EXCEPT !.conn[c].state = "closed", !.conn[c].heartbeat = FALSE])

\* The callback of the heartbeat interval: the write of the comment line
\* throws on a destroyed connection, which clears the interval and removes
\* the connection from the set of its job.
heartbeat(s, c) ==
    IF s.conn[c].state = "broken"
    THEN [cleanupSSEClient(s, s.conn[c].id, c) EXCEPT !.conn[c].heartbeat = FALSE]
    ELSE s

Heartbeat(c) ==
    /\ conn[c].heartbeat
    /\ Commit(heartbeat(Cur, c))

\* The peer of an open connection stops reading, or its socket is destroyed.
Break(c, state) ==
    /\ conn[c].state = "open"
    /\ Commit([Cur EXCEPT !.conn[c].state = state])

\* Time passes.
Tick(limit) ==
    /\ now < limit
    /\ Commit([Cur EXCEPT !.now = @ + 1])

----------------------------------------------------------------------------
\* Queue management

RECURSIVE broadcastFrom(_, _)
broadcastFrom(s, index) ==
    IF index > Len(s.downloadQueue) THEN s
    ELSE broadcastFrom(
             updateProgress(s, s.downloadQueue[index],
                 [status |-> "queued", progress |-> 0,
                  message |-> "Menunggu antrian... (Posisi)",
                  queuePosition |-> index]),
             index + 1)

\* No broadcast: the records keep the positions they had.
broadcastNothing(s) == s

broadcastQueuePositions(s) == broadcastFrom(s, 1)

\* downloadQueue.findIndex(item => item.downloadId === downloadId); 0 for -1
findIndex(q, id) ==
    IF \E i \in 1..Len(q) : q[i] = id
    THEN CHOOSE i \in 1..Len(q) : q[i] = id /\ \A k \in 1..(i - 1) : q[k] # id
    ELSE 0

\* downloadQueue.splice(index, 1)
splice(q, index) == [i \in 1..(Len(q) - 1) |-> IF i < index THEN q[i] ELSE q[i + 1]]

\* The queue after removeFromQueue(id); the call returns true iff InQueue(s, id).
InQueue(s, id) == findIndex(s.downloadQueue, id) # 0

\* removeFromQueue without the splice: the entry stays in the queue.
removeFromQueueNoSplice(s, id) ==
    IF InQueue(s, id)
    THEN broadcastQueuePositions(
             [s EXCEPT !.pc[id] = "dropped", !.options[id] = NoOptions])
    ELSE s

removeFromQueue(s, id) ==
    IF InQueue(s, id)
    THEN broadcastQueuePositions(
             [s EXCEPT !.downloadQueue = splice(@, findIndex(@, id)),
                       !.pc[id] = "dropped",
                       !.options[id] = NoOptions])
    ELSE s

----------------------------------------------------------------------------
\* processDownload up to its first await: the part task() runs synchronously

\* setTimeout(..., DOWNLOAD_TIMEOUT_MS); downloadTimeouts.set(downloadId, timeoutId)
armTimeout(s, id) ==
    [s EXCEPT !.timers[id] = @ + 1, !.downloadTimeouts = @ \cup {id}]

\* spawn(YTDLP_PATH, args); activeProcesses.set(downloadId, {...})
spawnYtdlp(s, id, hasTempDir) ==
    [s EXCEPT !.ytdlp[id] = Spawned,
              !.activeProcesses = MapSet(@, id,
                  [cancelled |-> FALSE, tempDir |-> hasTempDir, ffmpegProcess |-> FALSE]),
              !.playlist[id] = <<0, 0>>,
              !.pc[id] = "download"]

downloadVideo(s, id) ==
    spawnYtdlp(
        updateProgress(s, id,
            [status |-> "downloading_video", progress |-> 0,
             message |-> "Mengunduh video..."]),
        id, FALSE)

\* downloadAudio from the mkdirSync of the scratch directory to the spawn
downloadAudioSpawn(s, id) ==
    LET merge == s.options[id].merge
        s1 == IF merge THEN [s EXCEPT !.tempDirs = @ \cup {id}] ELSE s
        s2 == updateProgress(s1, id,
                  [status |-> "downloading_audio", progress |-> 0,
                   message |-> "Mengunduh audio..."])
    IN  spawnYtdlp(s2, id, merge)

\* downloadAudio: a merge over a playlist URL first awaits the item count
downloadAudio(s, id) ==
    IF s.options[id].merge /\ s.options[id].playlist
    THEN [s EXCEPT !.pc[id] = "precount"]
    ELSE downloadAudioSpawn(s, id)

\* The 'starting' update of processDownload; viaStarting records that it
\* replaced status queued.
writeStarting(s, id) ==
    LET wasQueued == id \in DOMAIN s.downloadProgress
                         /\ s.downloadProgress[id].status = "queued"
        s1 == updateProgress(s, id,
                  [status |-> "starting", progress |-> 0,
                   message |-> "Memulai download...", canCancel |-> TRUE])
    IN  IF wasQueued THEN [s1 EXCEPT !.viaStarting = @ \cup {id}] ELSE s1

\* processDownload that goes to the download without the 'starting' update.
processDownloadNoStarting(s, id) ==
    LET s1 == armTimeout(s, id)
    IN  IF s.options[id].type = "video" THEN downloadVideo(s1, id)
        ELSE downloadAudio(s1, id)

processDownload(s, id) ==
    LET s1 == armTimeout(s, id)
        s2 == writeStarting(s1, id)
    IN  IF s.options[id].type = "video" THEN downloadVideo(s2, id)
        ELSE downloadAudio(s2, id)

----------------------------------------------------------------------------
\* processQueue

\* The while condition with <= for <.
CanPromoteOffByOne(s) ==
    s.activeDownloads <= MAX_CONCURRENT_DOWNLOADS /\ Len(s.downloadQueue) > 0

\* The condition of the while loop.
CanPromote(s) ==
    s.activeDownloads < MAX_CONCURRENT_DOWNLOADS /\ Len(s.downloadQueue) > 0

\* downloadQueue.pop() for shift(): the newest entry is taken.
popIndex(q) == Len(q)

\* downloadQueue.shift(): the index of the entry taken
shiftIndex(q) == 1

RECURSIVE processQueue(_)
processQueue(s) ==
    IF CanPromote(s)
    THEN LET index == shiftIndex(s.downloadQueue)
             downloadId == s.downloadQueue[index]
             s1 == [s EXCEPT !.downloadQueue = splice(@, index),
                             !.activeDownloads = @ + 1]
             s2 == broadcastQueuePositions(s1)
             s3 == [s2 EXCEPT !.started = Append(@, downloadId)]
         IN  processQueue(processDownload(s3, downloadId))
    ELSE s

\* enqueueDownload that also arms the 30 minute timer: the deadline counted
\* from submission.
enqueueDownloadArming(s, id) ==
    LET s1 == [s EXCEPT !.downloadQueue = Append(@, id), !.pc[id] = "queued"]
        s2 == updateProgress(s1, id,
                  [status |-> "queued", progress |-> 0,
                   message |-> "Menunggu antrian... (Posisi)",
                   queuePosition |-> Len(s1.downloadQueue), canCancel |-> TRUE])
    IN  processQueue(armTimeout(s2, id))

\* enqueueDownload without its last line, the call of processQueue.
enqueueDownloadNoPromote(s, id) ==
    LET s1 == [s EXCEPT !.downloadQueue = Append(@, id), !.pc[id] = "queued"]
    IN  updateProgress(s1, id,
            [status |-> "queued", progress |-> 0,
             message |-> "Menunggu antrian... (Posisi)",
             queuePosition |-> Len(s1.downloadQueue), canCancel |-> TRUE])

enqueueDownload(s, id) ==
    LET s1 == [s EXCEPT !.downloadQueue = Append(@, id), !.pc[id] = "queued"]
        s2 == updateProgress(s1, id,
                  [status |-> "queued", progress |-> 0,
                   message |-> "Menunggu antrian... (Posisi)",
                   queuePosition |-> Len(s1.downloadQueue), canCancel |-> TRUE])
    IN  processQueue(s2)

----------------------------------------------------------------------------
\* Settlement of a task: the continuations that run once the promise of
\* downloadVideo / downloadAudio is resolved ("resolved") or rejected (the
\* message of the error).

IsCancelled(s, id) ==
    id \in DOMAIN s.activeProcesses /\ s.activeProcesses[id].cancelled

\* The catch block without its test of the cancelled flag.
ReportsErrorAlways(s, id) == TRUE

\* The catch block that never writes.
ReportsErrorNever(s, id) == FALSE

\* The test of the catch block of processDownload: !processInfo?.cancelled
ReportsError(s, id) == ~IsCancelled(s, id)

processDownloadCatch(s, id, message) ==
    IF ReportsError(s, id)
    THEN updateProgress(s, id,
             [status |-> "error", progress |-> 0, message |-> message,
              canCancel |-> FALSE])
    ELSE s

\* clearTimeout(...); downloadTimeouts.delete(downloadId)
clearDownloadTimeout(s, id) ==
    [s EXCEPT !.timers[id] = IF id \in s.downloadTimeouts THEN 0 ELSE @,
              !.downloadTimeouts = @ \ {id}]

\* finally of processDownload: clearTimeout(timeoutId) clears the task's own timer
processDownloadFinally(s, id) ==
    [s EXCEPT !.timers[id] = 0, !.downloadTimeouts = @ \ {id}]

\* .finally() without the call of processQueue.
processQueueFinallyNoPromote(s, id) ==
    clearDownloadTimeout(
        [s EXCEPT !.activeDownloads = @ - 1,
                  !.activeProcesses = MapDelete(@, id)],
        id)

\* .finally() without activeProcesses.delete(downloadId).
processQueueFinallyKeepsProcess(s, id) ==
    processQueue(
        clearDownloadTimeout([s EXCEPT !.activeDownloads = @ - 1], id))

\* .finally() of processQueue
processQueueFinally(s, id) ==
    processQueue(
        clearDownloadTimeout(
            [s EXCEPT !.activeDownloads = @ - 1,
                      !.activeProcesses = MapDelete(@, id)],
            id))

Settle(s, id, outcome) ==
    LET s1 == IF outcome = "resolved" THEN s ELSE processDownloadCatch(s, id, outcome)
        s2 == processDownloadFinally(s1, id)
        s3 == [s2 EXCEPT !.pc[id] = "done", !.options[id] = NoOptions,
                         !.playlist[id] = <<0, 0>>, !.discarded = @ \ {id}]
    IN  processQueueFinally(s3, id)

----------------------------------------------------------------------------
\* POST /api/download

\* CONFIG.MAX_URL_LENGTH
MAX_URL_LENGTH == 500

\* A URL by what the handler reads of it: its length, the scheme it is
\* written with ("none" when new URL(url) throws), whether
\* new URL('https://' + url) succeeds, and whether it contains "playlist?list=".
Urls ==
    { [length |-> 43, scheme |-> "https", prefixed |-> FALSE, playlist |-> FALSE],
      [length |-> 501, scheme |-> "https", prefixed |-> FALSE, playlist |-> FALSE],
      [length |-> 20, scheme |-> "ftp", prefixed |-> FALSE, playlist |-> FALSE],
      [length |-> 20, scheme |-> "none", prefixed |-> TRUE, playlist |-> FALSE],
      [length |-> 20, scheme |-> "none", prefixed |-> FALSE, playlist |-> FALSE],
      [length |-> 0, scheme |-> "none", prefixed |-> FALSE, playlist |-> FALSE] }

PlainUrl == [length |-> 43, scheme |-> "https", prefixed |-> FALSE, playlist |-> FALSE]

\* The request bodies: url, type (the value of type || mode), format, quality
\* and merge.  A video and an audio request, and each with one of the
\* validated fields changed.
VideoBody ==
    [url |-> PlainUrl, type |-> "video", format |-> "mp4", quality |-> "720",
     merge |-> FALSE]

AudioBody ==
    [url |-> PlainUrl, type |-> "audio", format |-> "mp3", quality |-> "720",
     merge |-> FALSE]

Bodies ==
    UNION { { [b EXCEPT !.url = u] : u \in Urls }
            \cup { [b EXCEPT !.type = x] : x \in {"mp3", "mp4", "gif", ""} }
            \cup { [b EXCEPT !.format = x] : x \in {"mp4", "mp3", "webm", "gif"} }
            \cup { [b EXCEPT !.quality = x] : x \in {"best", "4k", ""} }
          : b \in {VideoBody, AudioBody} }

isValidUrl(url) ==
    IF url.length = 0 THEN FALSE
    ELSE IF url.length > MAX_URL_LENGTH THEN FALSE
    ELSE IF url.scheme # "none" THEN url.scheme \in {"http", "https"}
    ELSE url.prefixed

audioFormats == {"mp3", "m4a", "wav", "flac", "opus"}
videoFormats == {"mp4", "webm"}
validQualities == {"360", "480", "720", "1080", "1440", "2160", "best"}

\* finalType after the normalisation of a format given as the type
finalType(body) ==
    IF body.type \in audioFormats THEN "audio"
    ELSE IF body.type \in videoFormats THEN "video"
    ELSE body.type

\* The format check accepting the formats of either kind.
validFormatsAnyKind(type) == videoFormats \cup audioFormats

validFormats(type) == IF type = "video" THEN videoFormats ELSE audioFormats

\* The message of the 400 response, "" when the body passes.
validationError(body) ==
    IF ~isValidUrl(body.url) THEN "URL tidak valid"
    ELSE IF finalType(body) \notin {"video", "audio"} THEN "Tipe download tidak valid"
    ELSE IF body.format \notin validFormats(finalType(body)) THEN "Format tidak valid"
    ELSE IF finalType(body) = "video" /\ body.quality \notin validQualities
    THEN "Kualitas tidak valid"
    ELSE ""

\* The options the task thunk captures.
optionsOf(body) ==
    [type |-> finalType(body), merge |-> body.merge, playlist |-> body.url.playlist]

\* The handler after validation: the record, the response, the enqueue.
acceptDownload(s, opts) ==
    LET downloadId == s.nextId
        s1 == [s EXCEPT !.nextId = @ + 1, !.options[downloadId] = opts]
        s2 == updateProgress(s1, downloadId,
                  [status |-> "queued", progress |-> 0,
                   message |-> "Menunggu antrian...", canCancel |-> TRUE])
        s3 == [s2 EXCEPT !.response = [code |-> 200, message |-> "Download dimulai"]]
    IN  enqueueDownload(s3, downloadId)

postDownload(s, body) ==
    IF validationError(body) # ""
    THEN [s EXCEPT !.response = [code |-> 400, message |-> validationError(body)]]
    ELSE acceptDownload(s, optionsOf(body))

\* A request with a body that passes validation.
Download(opts, limit) ==
    /\ nextId <= limit
    /\ Commit(acceptDownload(Cur, opts))

\* A request with any body; at most `limit` of them are accepted.
DownloadRequest(body, limit) ==
    /\ validationError(body) = "" => nextId <= limit
    /\ Commit(postDownload(Cur, body))

----------------------------------------------------------------------------
\* Child processes and the scratch directory

\* subprocess.kill(signal): the signal is delivered, and the handle's `killed`
\* flag set, only while the process has not exited.
kill(h, signal) ==
    IF h.state = "running"
    THEN [h EXCEPT !.killed = TRUE, !.signals = @ \cup {signal}]
    ELSE h

\* if (h && !h.killed) h.kill(signal)
killUnlessKilled(h, signal) ==
    IF h.state # "none" /\ ~h.killed THEN kill(h, signal) ELSE h

\* cleanupDir that leaves the directory on disk.
cleanupDirNothing(s, id) == s

cleanupDir(s, id) == [s EXCEPT !.tempDirs = @ \ {id}]

\* cleanupTempFiles: every item of the temp folder is removed.
cleanupTempFiles(s) == [s EXCEPT !.tempDirs = {}]

\* The callback of the hourly setInterval (cleanupOldDownloads removes only
\* files of the downloads folder older than 24 hours).
CleanupTempFiles == Commit(cleanupTempFiles(Cur))

\* if (processInfo.tempDir) cleanupDir(processInfo.tempDir)
cleanupProcessTemp(s, id) ==
    IF s.activeProcesses[id].tempDir THEN cleanupDir(s, id) ELSE s

\* if (processInfo.ffmpegProcess && !processInfo.ffmpegProcess.killed) ...kill('SIGTERM')
killFfmpeg(s, id) ==
    IF s.activeProcesses[id].ffmpegProcess
    THEN [s EXCEPT !.ffmpeg[id] = killUnlessKilled(@, "SIGTERM")]
    ELSE s

----------------------------------------------------------------------------
\* POST /api/cancel/:id

\* The branch for a job in activeProcesses, giving the slot back itself.
cancelActiveReleasing(s, id) ==
    LET s1 == [s EXCEPT !.activeProcesses[id].cancelled = TRUE]
        sends == s1.ytdlp[id].state # "none" /\ ~s1.ytdlp[id].killed
        s2 == IF sends
              THEN [s1 EXCEPT !.ytdlp[id] = kill(@, "SIGTERM"),
                              !.killTimers = @ \cup {id}]
              ELSE s1
        s3 == killFfmpeg(s2, id)
        s4 == cleanupProcessTemp(s3, id)
        s5 == clearDownloadTimeout(s4, id)
        s6 == updateProgress(s5, id,
                  [status |-> "cancelled", progress |-> 0,
                   message |-> "Download dibatalkan", canCancel |-> FALSE])
    IN  [s6 EXCEPT !.activeDownloads = @ - 1,
                   !.cancelAcked = @ \cup {id},
                   !.response = [code |-> 200, message |-> "Download dibatalkan"]]

\* The branch for a job in activeProcesses.  The 5 second timer is set only
\* when the SIGTERM is sent.
cancelActive(s, id) ==
    LET s1 == [s EXCEPT !.activeProcesses[id].cancelled = TRUE]
        sends == s1.ytdlp[id].state # "none" /\ ~s1.ytdlp[id].killed
        s2 == IF sends
              THEN [s1 EXCEPT !.ytdlp[id] = kill(@, "SIGTERM"),
                              !.killTimers = @ \cup {id}]
              ELSE s1
        s3 == killFfmpeg(s2, id)
        s4 == cleanupProcessTemp(s3, id)
        s5 == clearDownloadTimeout(s4, id)
        s6 == updateProgress(s5, id,
                  [status |-> "cancelled", progress |-> 0,
                   message |-> "Download dibatalkan", canCancel |-> FALSE])
    IN  [s6 EXCEPT !.cancelAcked = @ \cup {id},
                   !.response = [code |-> 200, message |-> "Download dibatalkan"]]

\* The branch for a queued job without the cancelled update.
cancelQueuedNoWrite(s, id) ==
    [removeFromQueue(s, id) EXCEPT !.response =
         [code |-> 200, message |-> "Download dibatalkan dari antrian"]]

cancelQueued(s, id) ==
    LET s1 == removeFromQueue(s, id)
        s2 == updateProgress(s1, id,
                  [status |-> "cancelled", progress |-> 0,
                   message |-> "Download dibatalkan dari antrian",
                   canCancel |-> FALSE])
    IN  [s2 EXCEPT !.response =
             [code |-> 200, message |-> "Download dibatalkan dari antrian"]]

\* The last line of the handler answering 200 with a cancelled record.
cancelNotFoundWrites(s, id) ==
    [updateProgress(s, id,
         [status |-> "cancelled", progress |-> 0,
          message |-> "Download dibatalkan", canCancel |-> FALSE])
     EXCEPT !.response = [code |-> 200, message |-> "Download dibatalkan"]]

\* res.status(404).json({ error: 'Download tidak ditemukan' })
cancelNotFound(s, id) ==
    [s EXCEPT !.response = [code |-> 404, message |-> "Download tidak ditemukan"]]

\* The handler: the queue first, then activeProcesses, else not found.
onCancel(s, id) ==
    IF InQueue(s, id) THEN cancelQueued(s, id)
    ELSE IF id \in DOMAIN s.activeProcesses THEN cancelActive(s, id)
    ELSE cancelNotFound(s, id)

Cancel(id) == Commit(onCancel(Cur, id))

\* The callback of the 5 second timer set by the cancel handler.
ForceKill(id) ==
    /\ id \in killTimers
    /\ Commit([Cur EXCEPT !.killTimers = @ \ {id},
                          !.ytdlp[id] = killUnlessKilled(@, "SIGKILL")])

----------------------------------------------------------------------------
\* The callback of the 30 minute timer set by processDownload

timeoutCallback(s, id) ==
    IF id \in DOMAIN s.activeProcesses /\ ~s.activeProcesses[id].cancelled
    THEN LET s1 == [s EXCEPT !.activeProcesses[id].cancelled = TRUE,
                             !.ytdlp[id] = killUnlessKilled(@, "SIGTERM")]
             s2 == killFfmpeg(s1, id)
             s3 == cleanupProcessTemp(s2, id)
         IN  updateProgress(s3, id,
                 [status |-> "error", progress |-> 0,
                  message |-> "Download timeout (melebihi 30 menit)",
                  canCancel |-> FALSE])
    ELSE s

Timeout(id) ==
    /\ timers[id] > 0
    /\ Commit(timeoutCallback([Cur EXCEPT !.timers[id] = @ - 1], id))

----------------------------------------------------------------------------
\* stdout of yt-dlp.  A chunk is what the handler can find in it: the
\* percentage of a "[download] NN%" line (None when there is none, or when the
\* 500 ms throttle drops it), the playlist item line, and the markers.

VideoMarkers == {"Merger", "EmbedThumbnail", "Metadata", "SubtitlesConvertor"}
AudioMarkers == {"ExtractAudio", "EmbedThumbnail", "Metadata"}

Min(a, b) == IF a < b THEN a ELSE b

\* Math.min(percent * 0.85, 85)
videoProgress(percent) == Min((percent * 85) \div 100, 85)

videoStdout(s, id, percent, markers) ==
    LET s1 == IF percent # None
              THEN updateProgress(s, id,
                       [status |-> "downloading_video",
                        progress |-> videoProgress(percent),
                        message |-> "Mengunduh video: %"])
              ELSE s
        s2 == IF "Merger" \in markers
              THEN updateProgress(s1, id,
                       [status |-> "postprocessing", progress |-> 88,
                        message |-> "Menggabungkan video dan audio..."])
              ELSE s1
        s3 == IF "EmbedThumbnail" \in markers
              THEN updateProgress(s2, id,
                       [status |-> "embedding_metadata", progress |-> 92,
                        message |-> "Menyematkan thumbnail..."])
              ELSE s2
        s4 == IF "Metadata" \in markers
              THEN updateProgress(s3, id,
                       [status |-> "embedding_metadata", progress |-> 95,
                        message |-> "Menambahkan metadata..."])
              ELSE s3
    IN  IF "SubtitlesConvertor" \in markers
        THEN updateProgress(s4, id,
                 [status |-> "postprocessing", progress |-> 93,
                  message |-> "Mengkonversi subtitle..."])
        ELSE s4

\* The percentage of an audio download: with totalVideos > 1 the line's
\* percentage is placed in the slice of the current item, then scaled by 0.80.
audioProgress(percent, currentVideo, totalVideos) ==
    IF totalVideos > 1
    THEN Min((((currentVideo - 1) * 100 + percent) * 80) \div (totalVideos * 100), 80)
    ELSE Min((percent * 80) \div 100, 80)

audioStdout(s, id, item, percent, markers) ==
    LET s0 == IF item # <<>> THEN [s EXCEPT !.playlist[id] = item] ELSE s
        s1 == IF percent # None
              THEN updateProgress(s0, id,
                       [status |-> "downloading_audio",
                        progress |-> audioProgress(percent, s0.playlist[id][1],
                                                   s0.playlist[id][2]),
                        message |-> IF s0.playlist[id][2] > 1
                                    THEN "Mengunduh c/t: %"
                                    ELSE "Mengunduh audio: %"])
              ELSE s0
        s2 == IF "ExtractAudio" \in markers
              THEN updateProgress(s1, id,
                       [status |-> "converting_audio", progress |-> 85,
                        message |-> "Mengkonversi ke FORMAT..."])
              ELSE s1
        s3 == IF "EmbedThumbnail" \in markers
              THEN updateProgress(s2, id,
                       [status |-> "embedding_metadata", progress |-> 90,
                        message |-> "Menyematkan cover art..."])
              ELSE s2
    IN  IF "Metadata" \in markers
        THEN updateProgress(s3, id,
                 [status |-> "embedding_metadata", progress |-> 93,
                  message |-> "Menambahkan metadata..."])
        ELSE s3

\* The stdout handler without its test of the cancelled flag.
DiscardsOutputNever(s, id) == FALSE

\* if (processInfo?.cancelled) return;
DiscardsOutput(s, id) == IsCancelled(s, id)

\* The handler returns at once; discarded records that it did.
discard(s, id) == [s EXCEPT !.discarded = @ \cup {id}]

\* The chunks of at most MaxChunkLines recognised lines.
Lines(item, percent, markers) ==
    Cardinality(markers) + (IF percent = None THEN 0 ELSE 1)
        + (IF item = <<>> THEN 0 ELSE 1)

VideoChunks ==
    { c \in (Percents \cup {None}) \X SUBSET VideoMarkers :
          Lines(<<>>, c[1], c[2]) \in 1..MaxChunkLines }

AudioChunks ==
    { c \in (PlaylistItems \cup {<<>>}) \X (Percents \cup {None}) \X SUBSET AudioMarkers :
          Lines(c[1], c[2], c[3]) \in 1..MaxChunkLines }

\* ytdlp.stdout.on('data') of downloadVideo
onVideoStdout(s, id, percent, markers) ==
    IF DiscardsOutput(s, id) THEN discard(s, id)
    ELSE videoStdout(s, id, percent, markers)

\* ytdlp.stdout.on('data') of downloadAudio
onAudioStdout(s, id, item, percent, markers) ==
    IF DiscardsOutput(s, id) THEN discard(s, id)
    ELSE audioStdout(s, id, item, percent, markers)

VideoStdout(id, percent, markers) ==
    /\ pc[id] = "download" /\ options[id].type = "video"
    /\ ytdlp[id].state = "running"
    /\ Commit(onVideoStdout(Cur, id, percent, markers))

AudioStdout(id, item, percent, markers) ==
    /\ pc[id] = "download" /\ options[id].type = "audio"
    /\ ytdlp[id].state = "running"
    /\ item # <<>> => options[id].merge
    /\ Commit(onAudioStdout(Cur, id, item, percent, markers))

----------------------------------------------------------------------------
\* 'close' and 'error' of the yt-dlp download process

\* Files a download worker writes straight into the downloads folder in a
\* run of FilesSpec.
MaxFilesPerJob == 1

\* The format of a job: the jobs of this model ask for mp4 video and mp3 audio.
formatOf(opts) == IF opts.type = "video" THEN "mp4" ELSE "mp3"

\* A file of the downloads folder, by the job whose worker wrote it.
File(id, ext) == [owner |-> id, ext |-> ext]

\* The worker of a job that does not merge writes an output file.
WorkerWritesFile(id) ==
    /\ pc[id] = "download" /\ ytdlp[id].state = "running"
    /\ ~options[id].merge
    /\ Len(SelectSeq(downloadsDir, LAMBDA f : f.owner = id)) < MaxFilesPerJob
    /\ Commit([Cur EXCEPT !.downloadsDir = <<File(id, formatOf(options[id]))>> \o @])

\* getRecentFiles(dir, extension, limit): the files with the extension, by
\* mtime descending, the first `limit` of them.
getRecentFiles(dir, extension, limit) ==
    LET matching == SelectSeq(dir, LAMBDA f : f.ext = extension)
    IN  SubSeq(matching, 1, Min(limit, Len(matching)))

\* The 'finished' update without the 'finalizing' one before it.
finishNoFinalizing(s, id, message, files) ==
    updateProgress(s, id,
        [status |-> "finished", progress |-> 100, message |-> message,
         files |-> files, canCancel |-> FALSE])

finish(s, id, message, files) ==
    updateProgress(
        updateProgress(s, id,
            [status |-> "finalizing", progress |-> 98,
             message |-> "Memfinalisasi file..."]),
        id,
        [status |-> "finished", progress |-> 100, message |-> message,
         files |-> files, canCancel |-> FALSE])

\* The merged file is in the downloads folder (copyFileSync, or the output of
\* ffmpeg), the scratch directory is removed, and the record is finished with
\* that file.
finishMerge(s, id) ==
    LET mergedFile == File(id, formatOf(s.options[id]))
        s1 == [s EXCEPT !.downloadsDir = <<mergedFile>> \o @]
    IN  finish(cleanupDir(s1, id), id, "Download dan merge selesai!", <<mergedFile>>)

videoClose(s, id, code) ==
    IF IsCancelled(s, id) THEN Settle(s, id, "Download dibatalkan")
    ELSE IF code = 0
    THEN Settle(finish(s, id, "Download selesai!",
                       getRecentFiles(s.downloadsDir, formatOf(s.options[id]), 5)),
                id, "resolved")
    ELSE Settle(s, id, "Download video gagal")

\* mergeAudioFiles up to the spawn of ffmpeg, and what follows its promise when
\* it settles at once.  files: the number of files of the target format that
\* readdirSync finds in the scratch directory (it throws when there is none).
mergeAudioFiles(s, id, files) ==
    IF id \notin s.tempDirs
    THEN Settle(cleanupDir(s, id), id, "ENOENT: no such file or directory, scandir")
    ELSE IF files = 0
    THEN Settle(cleanupDir(s, id), id, "Tidak ada file audio untuk digabungkan")
    ELSE IF files = 1
    THEN Settle(finishMerge(s, id), id, "resolved")
    ELSE [s EXCEPT !.ffmpeg[id] = Spawned,
                   !.activeProcesses =
                       IF id \in DOMAIN @
                       THEN [@ EXCEPT ![id].ffmpegProcess = TRUE] ELSE @,
                   !.pc[id] = "merge"]

audioClose(s, id, code, files) ==
    IF IsCancelled(s, id) THEN Settle(cleanupDir(s, id), id, "Download dibatalkan")
    ELSE IF code # 0 THEN Settle(cleanupDir(s, id), id, "Download audio gagal")
    ELSE IF s.options[id].merge
    THEN mergeAudioFiles(
             updateProgress(s, id,
                 [status |-> "merging_playlist", progress |-> 95,
                  message |-> "Menggabungkan file audio playlist..."]),
             id, files)
    ELSE Settle(finish(s, id, "Download selesai!",
                       getRecentFiles(s.downloadsDir, formatOf(s.options[id]), 10)),
                id, "resolved")

\* ytdlp.on('close') of downloadVideo / downloadAudio
onYtdlpClose(s, id, code, files) ==
    LET s1 == [s EXCEPT !.ytdlp[id].state = "exited"]
    IN  IF s.options[id].type = "video" THEN videoClose(s1, id, code)
        ELSE audioClose(s1, id, code, files)

\* ytdlp.on('error') of downloadVideo / downloadAudio
onYtdlpError(s, id) ==
    LET s1 == [s EXCEPT !.ytdlp[id].state = "exited"]
    IN  IF s.options[id].type = "video" THEN Settle(s1, id, "yt-dlp error")
        ELSE Settle(cleanupDir(s1, id), id, "yt-dlp error")

\* The process exits with the code and its 'close' event is handled.
YtdlpClose(id, code, files) ==
    /\ pc[id] = "download" /\ ytdlp[id].state = "running"
    /\ Commit(onYtdlpClose(Cur, id, code, files))

\* 'error' of the download process: it could not be spawned.  The 'close' that
\* follows finds the promise settled and the code non-zero.
YtdlpError(id) ==
    /\ pc[id] = "download" /\ ytdlp[id].state = "running"
    /\ ytdlp[id].signals = {}
    /\ Commit(onYtdlpError(Cur, id))

----------------------------------------------------------------------------
\* 'close' and 'error' of the ffmpeg merge process: the promise of
\* mergeAudioFiles settles and the 'close' handler of yt-dlp resumes

ffmpegSettled(s, id, ok, message) ==
    IF ok
    THEN Settle(finishMerge(s, id), id, "resolved")
    ELSE Settle(cleanupDir(s, id), id, message)

FfmpegClose(id, code) ==
    /\ pc[id] = "merge" /\ ffmpeg[id].state = "running"
    /\ Commit(ffmpegSettled([Cur EXCEPT !.ffmpeg[id].state = "exited"], id,
                            code = 0, "Gagal menggabungkan file audio"))

FfmpegError(id) ==
    /\ pc[id] = "merge" /\ ffmpeg[id].state = "running"
    /\ ffmpeg[id].signals = {}
    /\ Commit(ffmpegSettled([Cur EXCEPT !.ffmpeg[id].state = "exited"], id,
                            FALSE, "FFmpeg error"))

----------------------------------------------------------------------------
\* The item count of a playlist merge (countProcess)

\* CONFIG.MAX_PLAYLIST_MERGE
MAX_PLAYLIST_MERGE == 50

\* The playlist sizes the count reports.
PlaylistSizes == {1, 50, 51, 60}

\* 'close' of countProcess with the code, lines being the items it printed;
\* a non-zero code also stands for its 'error' event (both resolve).
CountClose(id, code, lines) ==
    /\ pc[id] = "precount"
    /\ Commit(IF code = 0 /\ lines > MAX_PLAYLIST_MERGE
              THEN Settle(cleanupDir(Cur, id), id, "Playlist terlalu besar untuk merge")
              ELSE downloadAudioSpawn(Cur, id))

----------------------------------------------------------------------------
\* POST /api/info

PlaylistUrl == [length |-> 60, scheme |-> "https", prefixed |-> FALSE, playlist |-> TRUE]

InfoUrls ==
    { PlainUrl, PlaylistUrl,
      [length |-> 20, scheme |-> "ftp", prefixed |-> FALSE, playlist |-> FALSE] }

\* What the worker has printed when it closes: the JSON of a video, text
\* that JSON.parse rejects, or no line at all.
InfoOutputs == {"json", "garbage", "empty"}

\* res.status(code).json(...)
send(s, r, code) == [s EXCEPT !.info[r].sent = Append(@, code)]

\* The handler up to its return: the 400 of an invalid URL, or the spawn of
\* the worker and the 30 second timer.
postInfo(s, r, url) ==
    IF ~isValidUrl(url)
    THEN send([s EXCEPT !.info[r].state = "rejected"], r, 400)
    ELSE [s EXCEPT !.info[r] =
             [state |-> "running", isPlaylist |-> url.playlist, ytdlp |-> Spawned,
              responded |-> FALSE, timeout |-> TRUE, errored |-> FALSE,
              sent |-> <<>>]]

InfoRequest(r, url) ==
    /\ info[r].state = "none"
    /\ Commit(postInfo(Cur, r, url))

\* The callback of the 30 second timer.
onInfoTimeout(s, r) ==
    LET s1 == [s EXCEPT !.info[r].timeout = FALSE]
    IN  IF ~s.info[r].responded
        THEN send([s1 EXCEPT !.info[r].responded = TRUE,
                             !.info[r].ytdlp = kill(@, "SIGTERM")], r, 504)
        ELSE s1

InfoTimeout(r) ==
    /\ info[r].state \in {"running", "closed"} /\ info[r].timeout
    /\ Commit(onInfoTimeout(Cur, r))

\* The status of the response of the close handler: 500 on a non-zero code,
\* 404 for a playlist without a video (lines that do not parse are dropped),
\* 500 when JSON.parse of a video's output throws, else 200.
closeStatus(isPlaylist, code, output) ==
    IF code # 0 THEN 500
    ELSE IF isPlaylist THEN (IF output = "json" THEN 200 ELSE 404)
    ELSE IF output = "json" THEN 200 ELSE 500

\* The close handler without `if (responded) return`.
onInfoCloseAlways(s, r, code, output) ==
    LET s1 == [s EXCEPT !.info[r].state = "closed",
                        !.info[r].ytdlp.state = "exited",
                        !.info[r].timeout = FALSE]
    IN  send([s1 EXCEPT !.info[r].responded = TRUE], r,
             closeStatus(s.info[r].isPlaylist, code, output))

\* ytdlp.on('close')
onInfoClose(s, r, code, output) ==
    LET s1 == [s EXCEPT !.info[r].state = "closed",
                        !.info[r].ytdlp.state = "exited",
                        !.info[r].timeout = FALSE]
    IN  IF s.info[r].responded THEN s1
        ELSE send([s1 EXCEPT !.info[r].responded = TRUE], r,
                  closeStatus(s.info[r].isPlaylist, code, output))

InfoClose(r, code, output) ==
    /\ info[r].state = "running"
    /\ Commit(onInfoClose(Cur, r, code, output))

\* ytdlp.on('error'): the worker could not be spawned, or a signal could not
\* be sent to it.
onInfoError(s, r) ==
    LET s1 == [s EXCEPT !.info[r].errored = TRUE, !.info[r].timeout = FALSE]
    IN  IF s.info[r].responded THEN s1
        ELSE send([s1 EXCEPT !.info[r].responded = TRUE], r, 500)

InfoError(r) ==
    /\ info[r].state = "running" /\ ~info[r].errored
    /\ Commit(onInfoError(Cur, r))

InfoNext ==
    \/ \E r \in InfoRequests, url \in InfoUrls : InfoRequest(r, url)
    \/ \E r \in InfoRequests : InfoTimeout(r)
    \/ \E r \in InfoRequests, code \in {0, 1}, output \in InfoOutputs :
           InfoClose(r, code, output)
    \/ \E r \in InfoRequests : InfoError(r)

InfoSpec == Init /\ [][InfoNext]_vars

----------------------------------------------------------------------------
\* gracefulShutdown, the handler of SIGTERM and SIGINT

\* activeProcesses.forEach: SIGTERM to the handles not yet killed, and the
\* removal of the scratch directory.
killAll(s, primaryOnly) ==
    LET active == DOMAIN s.activeProcesses
    IN  [s EXCEPT
            !.ytdlp = [j \in Jobs |->
                          IF j \in active THEN killUnlessKilled(@[j], "SIGTERM")
                          ELSE @[j]],
            !.ffmpeg = [j \in Jobs |->
                           IF /\ ~primaryOnly /\ j \in active
                              /\ s.activeProcesses[j].ffmpegProcess
                           THEN killUnlessKilled(@[j], "SIGTERM") ELSE @[j]],
            !.tempDirs = @ \ { j \in active : s.activeProcesses[j].tempDir }]

\* downloadTimeouts.forEach(clearTimeout); progressCleanupTimers.forEach(clearTimeout)
clearAllTimers(s) ==
    [s EXCEPT !.timers = [j \in Jobs |->
                             IF j \in s.downloadTimeouts THEN 0 ELSE @[j]],
              !.cleanupTimers = [j \in Jobs |->
                                    IF j \in s.progressCleanupTimers THEN 0 ELSE @[j]]]

\* sseClients.forEach(clients => clients.forEach(client => client.end()))
endAllClients(s) ==
    [s EXCEPT !.conn = [c \in Clients |->
                           IF \E j \in DOMAIN s.sseClients : c \in s.sseClients[j]
                           THEN [@[c] EXCEPT !.state = "ended"] ELSE @[c]]]

\* gracefulShutdown that signals the download worker of a job only.
gracefulShutdownPrimaryOnly(s) ==
    [endAllClients(clearAllTimers(killAll(s, TRUE))) EXCEPT !.exited = TRUE]

\* The handler ends in process.exit(0).
gracefulShutdown(s) ==
    [endAllClients(clearAllTimers(killAll(s, FALSE))) EXCEPT !.exited = TRUE]

GracefulShutdown ==
    /\ ~exited
    /\ Commit(gracefulShutdown(Cur))

\* Submissions accepted in a run of ShutdownSpec.
MaxShutdownJobs == 3

\* The jobs of ShutdownSpec: a video job and a merge job of one URL.
ShutdownJobs ==
    { [type |-> "video", merge |-> FALSE, playlist |-> FALSE],
      [type |-> "audio", merge |-> TRUE,  playlist |-> FALSE] }

\* The server until a SIGTERM or SIGINT arrives: after process.exit no
\* handler runs.  Workers print nothing recognised, a cancel of an active
\* job is not repeated, and one connection follows the first job.
ShutdownNext ==
    \/ GracefulShutdown
    \/ /\ ~exited
       /\ \/ \E opts \in ShutdownJobs : Download(opts, MaxShutdownJobs)
          \/ Subscribe(1, 1)
          \/ \E id \in Jobs : id \notin cancelAcked /\ Cancel(id)
          \/ \E id \in Jobs : Timeout(id)
          \/ \E id \in Jobs, files \in {0, 2} : YtdlpClose(id, 0, files)
          \/ \E id \in Jobs : FfmpegClose(id, 0)

ShutdownSpec == Init /\ [][ShutdownNext]_vars

----------------------------------------------------------------------------
\* waitForServer of the Electron main process

\* The values of maxAttempts in a run of WaitSpec.
MaxAttempts == 4

\* resolve / reject of the promise: the first call settles it.
settle(w, outcome) ==
    IF w.promise = "pending" THEN [w EXCEPT !.promise = outcome] ELSE w

\* The call: the promise is created and the first check is set 1 second ahead.
WaitForServer(maxAttempts) ==
    /\ wait.promise = "none"
    /\ Commit([Cur EXCEPT !.wait =
                   [maxAttempts |-> maxAttempts, attempts |-> 0, scheduled |-> 1,
                    inflight |-> 0, polls |-> 0, promise |-> "pending"]])

\* checkServer, the callback of a setTimeout: attempts++ and one http.get.
CheckServer ==
    /\ wait.scheduled > 0
    /\ Commit([Cur EXCEPT !.wait.scheduled = @ - 1,
                          !.wait.attempts = @ + 1,
                          !.wait.polls = @ + 1,
                          !.wait.inflight = @ + 1])

\* The callback of http.get: the server has answered.
PollResponse ==
    /\ wait.inflight > 0
    /\ Commit([Cur EXCEPT !.wait = settle([@ EXCEPT !.inflight = @ - 1], "resolved")])

\* req.on('error')
onPollError(w) ==
    IF w.attempts >= w.maxAttempts THEN settle(w, "rejected")
    ELSE [w EXCEPT !.scheduled = @ + 1]

\* The connection of a request in flight fails.
PollError ==
    /\ wait.inflight > 0
    /\ Commit([Cur EXCEPT !.wait = onPollError([@ EXCEPT !.inflight = @ - 1])])

\* The callback of req.setTimeout: req.destroy(), then a new check unless
\* the attempts are used up.  The destroyed request emits 'error' on the
\* next tick, or does not.
onPollTimeout(w, emitsError) ==
    LET w1 == IF w.attempts < w.maxAttempts
              THEN [w EXCEPT !.scheduled = @ + 1] ELSE w
    IN  IF emitsError THEN onPollError(w1) ELSE w1

\* A request in flight is idle for 1 second.
PollTimeout(emitsError) ==
    /\ wait.inflight > 0
    /\ Commit([Cur EXCEPT !.wait =
                   onPollTimeout([@ EXCEPT !.inflight = @ - 1], emitsError)])

WaitNext ==
    \/ \E maxAttempts \in 1..MaxAttempts : WaitForServer(maxAttempts)
    \/ CheckServer
    \/ PollResponse
    \/ PollError
    \/ \E emitsError \in BOOLEAN : PollTimeout(emitsError)

WaitSpec == Init /\ [][WaitNext]_vars

----------------------------------------------------------------------------
\* The specifications of the download queue

Next ==
    \/ \E opts \in JobOptions : Download(opts, MaxDetailed)
    \/ \E id \in Jobs : ProgressCleanup(id)
    \/ \E id \in Jobs : Cancel(id)
    \/ \E id \in Jobs : ForceKill(id)
    \/ \E id \in Jobs : Timeout(id)
    \/ \E id \in Jobs, c \in VideoChunks : VideoStdout(id, c[1], c[2])
    \/ \E id \in Jobs, c \in AudioChunks : AudioStdout(id, c[1], c[2], c[3])
    \/ \E id \in Jobs, code \in {0, 1}, files \in 0..2 : YtdlpClose(id, code, files)
    \/ \E id \in Jobs : YtdlpError(id)
    \/ \E id \in Jobs, code \in {0, 1} : FfmpegClose(id, code)
    \/ \E id \in Jobs : FfmpegError(id)
    \/ \E id \in Jobs, code \in {0, 1}, lines \in PlaylistSizes : CountClose(id, code, lines)

Spec == Init /\ [][Next]_vars

\* The queue under more submissions: video jobs whose workers print nothing
\* recognised, and no progress record expires.
VideoJob == [type |-> "video", merge |-> FALSE, playlist |-> FALSE]

QueueNext ==
    \/ Download(VideoJob, MaxJobs)
    \/ \E id \in Jobs : Cancel(id)
    \/ \E id \in Jobs : ForceKill(id)
    \/ \E id \in Jobs : Timeout(id)
    \/ \E id \in Jobs, code \in {0, 1} : YtdlpClose(id, code, 0)
    \/ \E id \in Jobs : YtdlpError(id)

QueueSpec == Init /\ [][QueueNext]_vars

\* Submissions accepted in a run of SubmitSpec.
MaxSubmit == 3

\* Submissions accepted in a run of SseSpec.
MaxApiJobs == 1

\* Submissions with any body, around video and audio jobs (no merge) whose
\* workers print nothing recognised and exit; no timer fires.
SubmitNext ==
    \/ \E body \in Bodies : DownloadRequest(body, MaxSubmit)
    \/ \E id \in Jobs : Cancel(id)
    \/ \E id \in Jobs, code \in {0, 1} : YtdlpClose(id, code, 0)

SubmitSpec == Init /\ [][SubmitNext]_vars

\* SSE connections around a job of any kind, with the progress cleanup.  The
\* worker prints nothing recognised and a cancel of an active job is not
\* repeated.
SseNext ==
    \/ \E opts \in JobOptions : Download(opts, MaxApiJobs)
    \/ \E c \in Clients, id \in 1..(MaxApiJobs + 1) : Subscribe(c, id)
    \/ \E c \in Clients : Unsubscribe(c)
    \/ \E id \in 1..(MaxApiJobs + 1) : ProgressCleanup(id)
    \/ \E id \in 1..(MaxApiJobs + 1) : id \notin cancelAcked /\ Cancel(id)
    \/ \E id \in Jobs : ForceKill(id)
    \/ \E id \in Jobs : Timeout(id)
    \/ \E id \in Jobs, code \in {0, 1}, files \in 0..2 : YtdlpClose(id, code, files)
    \/ \E id \in Jobs : YtdlpError(id)
    \/ \E id \in Jobs, code \in {0, 1} : FfmpegClose(id, code)
    \/ \E id \in Jobs : FfmpegError(id)
    \/ \E id \in Jobs, code \in {0, 1}, lines \in PlaylistSizes : CountClose(id, code, lines)

SseSpec == Init /\ [][SseNext]_vars

\* Merge jobs with the hourly housekeeping of the temp folder.  The worker
\* prints nothing recognised and a cancel of an active job is not repeated.
MergeJobs == { o \in JobOptions : o.merge }

TempNext ==
    \/ \E opts \in MergeJobs : Download(opts, MaxDetailed)
    \/ CleanupTempFiles
    \/ \E id \in Jobs : id \notin cancelAcked /\ Cancel(id)
    \/ \E id \in Jobs : Timeout(id)
    \/ \E id \in Jobs, code \in {0, 1}, files \in 0..2 : YtdlpClose(id, code, files)
    \/ \E id \in Jobs : YtdlpError(id)
    \/ \E id \in Jobs, code \in {0, 1} : FfmpegClose(id, code)
    \/ \E id \in Jobs : FfmpegError(id)
    \/ \E id \in Jobs, code \in {0, 1}, lines \in PlaylistSizes : CountClose(id, code, lines)

TempSpec == Init /\ [][TempNext]_vars

\* Submissions accepted in a run of PushSpec.
MaxPushJobs == 1

\* Submissions accepted in a run of ClockSpec.
MaxClockJobs == 2

\* Ticks of the clock in a run of ClockSpec.
MaxClock == 1

\* Frames written to a connection in a run of PushSpec.
MaxFrames == 3

\* No connection holds MaxFrames frames: the worker's output is read.
RoomForFrames == \A c \in Clients : Len(frames[c]) < MaxFrames

\* The chunks of output in a run of PushSpec: a percentage and a marker.
PushChunks == { <<20, {}>>, <<None, {"Merger"}>> }

\* Progress pushed to SSE connections that stall and break: a video job
\* that is not cancelled.
PushNext ==
    \/ Download(VideoJob, MaxPushJobs)
    \/ \E c \in Clients, id \in 1..(MaxPushJobs + 1) : Subscribe(c, id)
    \/ \E c \in Clients : Unsubscribe(c)
    \/ \E c \in Clients, state \in {"stalled", "broken"} : Break(c, state)
    \/ \E id \in Jobs, c \in PushChunks :
           RoomForFrames /\ VideoStdout(id, c[1], c[2])
    \/ \E id \in Jobs, code \in {0, 1} : YtdlpClose(id, code, 0)

PushSpec == Init /\ [][PushNext]_vars

\* Progress records under a clock: video jobs that are not cancelled, and
\* connections that stay open.
ClockNext ==
    \/ Download(VideoJob, MaxClockJobs)
    \/ Tick(MaxClock)
    \/ \E c \in Clients, id \in 1..MaxClockJobs : Subscribe(c, id)
    \/ \E id \in Jobs, c \in PushChunks :
           RoomForFrames /\ VideoStdout(id, c[1], c[2])
    \/ \E id \in Jobs, code \in {0, 1} : YtdlpClose(id, code, 0)

ClockSpec == Init /\ [][ClockNext]_vars

\* Submissions accepted in a run of SubsSpec.
MaxSubsJobs == 1

\* The subscriber map under every operation that changes it: subscribe,
\* close of the connection, heartbeat, broadcast to connections that stall
\* and break, and expiry of the record, around a video job.
SubsNext ==
    \/ Download(VideoJob, MaxSubsJobs)
    \/ \E c \in Clients, id \in 1..(MaxSubsJobs + 1) : Subscribe(c, id)
    \/ \E c \in Clients : Unsubscribe(c)
    \/ \E c \in Clients : Heartbeat(c)
    \/ \E c \in Clients, state \in {"stalled", "broken"} : Break(c, state)
    \/ \E id \in Jobs : id \notin cancelAcked /\ Cancel(id)
    \/ \E id \in Jobs : RoomForFrames /\ VideoStdout(id, 20, {})
    \/ \E id \in Jobs, code \in {0, 1} : YtdlpClose(id, code, 0)
    \/ \E id \in 1..(MaxSubsJobs + 1) : ProgressCleanup(id)

SubsSpec == Init /\ [][SubsNext]_vars

\* Submissions accepted in a run of FilesSpec.
MaxFileJobs == 3

\* Jobs that do not merge.
PlainJobs == { o \in JobOptions : ~o.merge /\ ~o.playlist }

\* Workers that write their output into the shared downloads folder: video
\* and audio jobs that do not merge, are not cancelled and print nothing
\* recognised.
FilesNext ==
    \/ \E opts \in PlainJobs : Download(opts, MaxFileJobs)
    \/ \E id \in Jobs : WorkerWritesFile(id)
    \/ \E id \in Jobs, code \in {0, 1} : YtdlpClose(id, code, 0)

FilesSpec == Init /\ [][FilesNext]_vars

\* The task of the job is invoked and has not settled.
Executing(id) == pc[id] \in {"precount", "download", "merge"}

\* The queue when every started task eventually settles.  The 'close' of the
\* worker is enabled exactly while the task executes and settles it, so that
\* weak fairness of it is: infinitely often the task is not executing.
LiveSpec ==
    /\ Init /\ [][QueueNext]_vars
    /\ \A id \in Jobs : []<>(~Executing(id))

\* The worker of the job has been sent SIGTERM and no SIGKILL, and runs.
IgnoringSigterm(id) ==
    /\ Executing(id)
    /\ ytdlp[id].state = "running" /\ ytdlp[id].signals = {"SIGTERM"}

\* The queue when every timer set by a cancel fires and every worker exits
\* in the end, except a worker that was sent SIGTERM and ignores it: such a
\* worker exits once it is sent SIGKILL.
ReleaseSpec ==
    /\ Init /\ [][QueueNext]_vars
    /\ \A id \in Jobs : WF_vars(ForceKill(id))
    /\ \A id \in Jobs : []<>(~Executing(id) \/ IgnoringSigterm(id))

----------------------------------------------------------------------------
\* Properties

Range(q) == { q[i] : i \in 1..Len(q) }

HasRecord(id) == id \in DOMAIN downloadProgress

\* The tasks processQueue has invoked and that have not settled.
ActiveExecutions == { j \in Jobs : Executing(j) }

\* C1: the number of tasks started by processQueue and not yet settled never
\* exceeds MAX_CONCURRENT_DOWNLOADS.
C1_ConcurrencyCeiling ==
    Cardinality(ActiveExecutions) <= MAX_CONCURRENT_DOWNLOADS

\* The ceiling is reached again after a completion promoted a queued job,
\* with another job still waiting.
C1_Witness ==
    /\ Cardinality(ActiveExecutions) = MAX_CONCURRENT_DOWNLOADS
    /\ Len(downloadQueue) > 0
    /\ Len(started) > MAX_CONCURRENT_DOWNLOADS
    /\ \E j \in Jobs : pc[j] = "done"

\* C2: tasks are invoked in submission order (job ids are given in submission
\* order): the ids in `started` increase.
C2_StartsInSubmissionOrder ==
    \A a, b \in 1..Len(started) : a < b => started[a] < started[b]

\* Three tasks have been invoked, the last one after waiting behind a job that
\* was cancelled in the queue.
C2_Witness ==
    /\ Len(started) >= 3
    /\ \E j \in Jobs : pc[j] = "dropped" /\ j < started[Len(started)]

\* C3: a cancel of a job that is in the queue removes exactly that entry,
\* answers success and writes status cancelled; the job's task is never
\* invoked and no worker is spawned for it afterwards.
C3_CancelQueued ==
    [][\A j \in Jobs :
          /\ (InQueue(Cur, j) /\ pc'[j] = "dropped") =>
                /\ downloadQueue' = splice(downloadQueue, findIndex(downloadQueue, j))
                /\ j \notin Range(downloadQueue')
                /\ response'.code = 200
                /\ j \in DOMAIN downloadProgress'
                /\ downloadProgress'[j].status = "cancelled"
          /\ pc[j] = "dropped" =>
                /\ pc'[j] = "dropped"
                /\ j \notin Range(downloadQueue')
                /\ j \notin Range(started')
                /\ ytdlp'[j] = NoHandle]_vars

\* A queued job was cancelled while another stays queued, and tasks were
\* invoked after that.
C3_Witness ==
    \E j \in Jobs :
        /\ pc[j] = "dropped"
        /\ HasRecord(j) /\ downloadProgress[j].status = "cancelled"
        /\ \E k \in Jobs : k > j /\ k \in Range(started)

\* C4: a successful cancel of an active job writes status cancelled, and from
\* then on the job's record never holds status error.
C4_CancelledNeverError ==
    [][\A j \in Jobs :
          /\ (j \in cancelAcked' /\ j \notin cancelAcked) =>
                j \in DOMAIN downloadProgress' /\ downloadProgress'[j].status = "cancelled"
          /\ (j \in cancelAcked' /\ j \in DOMAIN downloadProgress') =>
                downloadProgress'[j].status # "error"]_vars

\* A job cancelled while active has settled by the rejection of its download.
C4_Witness ==
    \E j \in cancelAcked :
        /\ pc[j] = "done"
        /\ HasRecord(j) /\ downloadProgress[j].status = "cancelled"

\* C5: once the 5 second timer of a cancel has fired, every process of the
\* job that is still running has been sent SIGKILL.
C5_ForcedKillAfterGrace ==
    [][\A j \in Jobs :
          (j \in killTimers /\ j \notin killTimers') =>
              /\ ytdlp'[j].state = "running" => "SIGKILL" \in ytdlp'[j].signals
              /\ ffmpeg'[j].state = "running" => "SIGKILL" \in ffmpeg'[j].signals]_vars

\* C6: a record with status finished, error or cancelled keeps that status.
C6_TerminalAbsorbing ==
    [][\A j \in DOMAIN downloadProgress \cap DOMAIN downloadProgress' :
          downloadProgress[j].status \in Terminal =>
              downloadProgress'[j].status = downloadProgress[j].status]_vars

\* C7: when the 30 minute timer of a job fires, the job's record takes status
\* error with the timeout message.
C7_TimeoutWritesError ==
    [][\A j \in Jobs :
          (timers'[j] < timers[j] /\ j \in downloadTimeouts') =>
              /\ j \in DOMAIN downloadProgress'
              /\ downloadProgress'[j].status = "error"
              /\ downloadProgress'[j].message = "Download timeout (melebihi 30 menit)"]_vars

\* C8: a job has no 30 minute timer before its task is invoked (idle, queued,
\* or cancelled in the queue), never more than one, and exactly one is armed
\* by the step that invokes its task.
NoTimerBeforeStart ==
    \A j \in Jobs :
        /\ timers[j] <= 1
        /\ pc[j] \in {"idle", "queued", "dropped"} =>
               timers[j] = 0 /\ j \notin downloadTimeouts

C8_TimerFromExecutionStart ==
    [][/\ NoTimerBeforeStart
       /\ NoTimerBeforeStart'
       /\ \A j \in Jobs :
             (pc[j] \in {"idle", "queued"} /\ pc'[j] \in {"precount", "download", "merge"}) =>
                 timers'[j] = 1 /\ j \in downloadTimeouts']_vars

\* A job waits in the queue without a timer while a started one has its timer
\* and another was cancelled in the queue.
C8_Witness ==
    /\ \E j \in Jobs : pc[j] = "queued" /\ timers[j] = 0
    /\ \E j \in Jobs : pc[j] = "download" /\ timers[j] = 1
    /\ \E j \in Jobs : pc[j] = "dropped" /\ timers[j] = 0

\* C9: the record of a job whose task has settled holds a terminal status.
C9_SettledIsTerminal ==
    \A j \in Jobs :
        (pc[j] = "done" /\ HasRecord(j)) => downloadProgress[j].status \in Terminal

\* A job has settled by the failure of its worker.
C9_Witness ==
    \E j \in Jobs :
        /\ pc[j] = "done" /\ HasRecord(j)
        /\ downloadProgress[j].status = "error"
        /\ downloadProgress[j].message \in {"Download video gagal", "Download audio gagal"}

\* C10: between two successive states of a record that are neither queued nor
\* terminal, the progress does not decrease.
C10_ProgressMonotonic ==
    [][\A j \in DOMAIN downloadProgress \cap DOMAIN downloadProgress' :
          (/\ downloadProgress[j].status \notin Terminal \cup {"queued"}
           /\ downloadProgress'[j].status \notin Terminal \cup {"queued"}) =>
              downloadProgress'[j].progress >= downloadProgress[j].progress]_vars

\* C11: whenever the cancelled flag of a job is set (by cancel or by the
\* timeout) and its worker is running, the stdout handler applied to any
\* chunk leaves every progress record as it is.
C11_CancelledOutputDiscarded ==
    \A j \in Jobs :
        (IsCancelled(Cur, j) /\ pc[j] = "download" /\ ytdlp[j].state = "running") =>
            IF options[j].type = "video"
            THEN \A c \in VideoChunks :
                     onVideoStdout(Cur, j, c[1], c[2]).downloadProgress = downloadProgress
            ELSE \A c \in AudioChunks :
                     onAudioStdout(Cur, j, c[1], c[2], c[3]).downloadProgress
                         = downloadProgress

\* Output was dropped for a job cancelled by request and for a job flagged by
\* the timeout, both still running.
C11_Witness ==
    /\ \E j \in discarded :
          /\ IsCancelled(Cur, j) /\ ytdlp[j].state = "running"
          /\ HasRecord(j) /\ downloadProgress[j].status = "cancelled"
    /\ \E j \in discarded :
          /\ IsCancelled(Cur, j) /\ ytdlp[j].state = "running"
          /\ HasRecord(j) /\ downloadProgress[j].status = "error"

\* C12: every job in the queue has a record with status queued whose
\* queuePosition is its 1-based index in the queue, in every state (so after
\* every pop and every cancel of a queued job).
C12_QueuePositions ==
    \A i \in 1..Len(downloadQueue) :
        /\ HasRecord(downloadQueue[i])
        /\ downloadProgress[downloadQueue[i]].status = "queued"
        /\ downloadProgress[downloadQueue[i]].queuePosition = i

\* The job now at the head of the queue was submitted behind a job that has
\* been cancelled in the queue: its position went from 2 to 1.
C12_Witness ==
    /\ Len(downloadQueue) > 0
    /\ downloadProgress[downloadQueue[1]].queuePosition = 1
    /\ \E j \in Jobs : pc[j] = "dropped" /\ j < downloadQueue[1]

\* Jobs 1, 2, 3 have been submitted and none has settled or left the queue
\* by a cancel.
ThreeSubmitted ==
    nextId = 4 /\ \A j \in 1..3 : pc[j] \notin {"done", "dropped"}

\* C13: with three jobs submitted and none completed, jobs 1 and 2 are
\* executing, each having gone from queued to starting, and job 3 is queued at
\* position 1; the step in which the task of job 1 settles invokes the task
\* of job 3, whose record goes from queued to starting, with job 2 still
\* executing.
C13_ThreeJobsCeilingTwo ==
    [][ThreeSubmitted =>
          /\ ActiveExecutions = {1, 2}
          /\ {1, 2} \subseteq viaStarting
          /\ downloadQueue = <<3>>
          /\ HasRecord(3)
          /\ downloadProgress[3].status = "queued"
          /\ downloadProgress[3].queuePosition = 1
          /\ 3 \notin viaStarting
          /\ (pc'[1] = "done") =>
                /\ started' = Append(started, 3)
                /\ 3 \in viaStarting'
                /\ downloadProgress'[3].status \notin Terminal \cup {"queued"}
                /\ {2, 3} \subseteq ActiveExecutions']_vars

\* Job 1 has finished and job 3 has been started behind it while job 2 is
\* executing.
C13_Witness ==
    /\ started = <<1, 2, 3>>
    /\ pc[1] = "done" /\ downloadProgress[1].status = "finished"
    /\ pc[2] = "download" /\ pc[3] = "download"
    /\ 3 \in viaStarting

\* C14: when every started task eventually settles, a job in the queue
\* eventually leaves it (started, or removed by a cancel); and the step that
\* settles a task decrements activeDownloads once and runs the promotion:
\* afterwards the count is the old one, minus one, plus the tasks invoked, and
\* no further promotion is possible.
C14_NoStarvation ==
    /\ \A j \in Jobs : (pc[j] = "queued") ~> (pc[j] \in {"download", "done", "dropped"})
    /\ [][\A j \in Jobs :
              (pc[j] = "download" /\ pc'[j] = "done") =>
                  /\ activeDownloads' =
                         activeDownloads - 1 + (Len(started') - Len(started))
                  /\ ~CanPromote(Cur')]_vars

\* A job that waited in the queue was started by the settlement of another.
C14_Witness ==
    /\ Len(started) > MAX_CONCURRENT_DOWNLOADS
    /\ \E j \in Jobs : pc[j] = "done"
    /\ pc[started[Len(started)]] = "download"
    /\ activeDownloads = MAX_CONCURRENT_DOWNLOADS

\* C15: for every job whose record holds a non-terminal status, the cancel
\* handler answers success and leaves the record with status cancelled.
C15_CancelFromAnyNonTerminal ==
    \A j \in DOMAIN downloadProgress :
        downloadProgress[j].status \notin Terminal =>
            /\ onCancel(Cur, j).response.code = 200
            /\ onCancel(Cur, j).downloadProgress[j].status = "cancelled"

\* The parts of the state a cancel request must leave alone when it finds
\* nothing to cancel.
CancelFrame(s) ==
    <<s.downloadQueue, s.activeDownloads, s.activeProcesses, s.downloadTimeouts,
      s.timers, s.killTimers, s.progressCleanupTimers, s.cleanupTimers,
      s.downloadProgress, s.ytdlp, s.ffmpeg, s.tempDirs, s.pc>>

\* C16: for an id that is neither in the queue nor in activeProcesses, the
\* cancel handler answers 404 and leaves the queue, the active count, the
\* active-execution records, the timers and every progress record unchanged.
C16_CancelNotFound ==
    \A j \in Jobs :
        (~InQueue(Cur, j) /\ j \notin DOMAIN activeProcesses) =>
            /\ onCancel(Cur, j).response.code = 404
            /\ CancelFrame(onCancel(Cur, j)) = CancelFrame(Cur)

\* A cancel request has been answered 404 after a job has settled and while
\* another id is still unknown.
C16_Witness ==
    /\ response.code = 404
    /\ \E j \in Jobs : pc[j] = "done" /\ HasRecord(j)
    /\ \E j \in Jobs : pc[j] = "idle"

\* A body that fails validation: invalid URL, invalid kind, a format outside
\* the set of the kind, or an invalid video quality.
FailsValidation(body) ==
    \/ ~isValidUrl(body.url)
    \/ finalType(body) \notin {"video", "audio"}
    \/ finalType(body) = "video" /\ body.format \notin {"mp4", "webm"}
    \/ finalType(body) = "audio"
           /\ body.format \notin {"mp3", "m4a", "wav", "flac", "opus"}
    \/ finalType(body) = "video"
           /\ body.quality \notin {"360", "480", "720", "1080", "1440", "2160", "best"}

\* C19: in every state, the submission handler applied to a body that fails
\* validation answers 400 and leaves the progress map, the queue, the active
\* count and the tasks as they are.
C19_InvalidSubmissionRejected ==
    \A body \in Bodies :
        FailsValidation(body) =>
            /\ postDownload(Cur, body).response.code = 400
            /\ postDownload(Cur, body).downloadProgress = downloadProgress
            /\ postDownload(Cur, body).downloadQueue = downloadQueue
            /\ postDownload(Cur, body).activeDownloads = activeDownloads
            /\ postDownload(Cur, body).nextId = nextId
            /\ postDownload(Cur, body).pc = pc

\* A submission has been answered 400 while two jobs execute and one waits.
C19_Witness ==
    /\ response.code = 400
    /\ activeDownloads = MAX_CONCURRENT_DOWNLOADS
    /\ Len(downloadQueue) = 1
    /\ DOMAIN downloadProgress = 1..3

\* C17, as the code has it: a connection that subscribes to a job whose
\* record is in the progress map with a terminal status is written exactly
\* one frame, that record.
C17_TerminalSnapshotOnSubscribe ==
    \A c \in Clients, j \in Jobs :
        (/\ conn[c].state = "new"
         /\ HasRecord(j) /\ downloadProgress[j].status \in Terminal) =>
            subscribe(Cur, c, j).frames[c] = Append(frames[c], downloadProgress[j])

\* C17, as stated: a connection that subscribes to a job that has reached a
\* terminal state (its task has settled, or it was cancelled in the queue) is
\* written exactly one frame, carrying a terminal record.
C17_TerminalSnapshotAlways ==
    \A c \in Clients, j \in Jobs :
        (conn[c].state = "new" /\ pc[j] \in {"done", "dropped"}) =>
            LET f == subscribe(Cur, c, j).frames[c]
            IN  Len(f) = Len(frames[c]) + 1 /\ f[Len(f)].status \in Terminal

\* A connection opened after the job had settled holds one frame, the
\* terminal record of the job.
C17_Witness ==
    \E c \in Clients :
        /\ conn[c].state = "open"
        /\ pc[conn[c].id] = "done"
        /\ HasRecord(conn[c].id)
        /\ downloadProgress[conn[c].id].status \in Terminal
        /\ frames[c] = <<downloadProgress[conn[c].id]>>

\* The frames with a terminal status among those written to a connection.
TerminalFrames(c) ==
    { i \in 1..Len(frames[c]) : frames[c][i].status \in Terminal }

\* C20: at most one progress cleanup timer is pending per job, the one in
\* progressCleanupTimers; a record with a terminal status always has one
\* pending (every terminal write schedules it anew in place of the old one);
\* and the step in which the timer fires removes the record and the
\* subscriber set of the job.
C20_CleanupTimer ==
    [][\A j \in Jobs :
          /\ cleanupTimers'[j] <= 1
          /\ (cleanupTimers'[j] = 1) <=> (j \in progressCleanupTimers')
          /\ (/\ j \in DOMAIN downloadProgress'
              /\ downloadProgress'[j].status \in Terminal) => cleanupTimers'[j] = 1
          /\ (cleanupTimers'[j] < cleanupTimers[j]) =>
                 /\ j \notin DOMAIN downloadProgress'
                 /\ j \notin DOMAIN sseClients']_vars

\* A job had two terminal writes seen by a connection, and its cleanup timer
\* has fired: the record, the subscriber set and the timer are gone.
C20_Witness ==
    \E c \in Clients :
        /\ conn[c].state = "open"
        /\ Cardinality(TerminalFrames(c)) >= 2
        /\ conn[c].id \notin DOMAIN downloadProgress
        /\ conn[c].id \notin DOMAIN sseClients
        /\ cleanupTimers[conn[c].id] = 0
        /\ conn[c].id \notin progressCleanupTimers

\* C18: no download worker of a merge job ever works on a source of more than
\* MAX_PLAYLIST_MERGE items, and no scratch directory exists for such a job:
\* the job is rejected before the download begins.
C18_OverCeilingRejected ==
    \A j \in Jobs :
        (options[j].merge /\ playlist[j][2] > MAX_PLAYLIST_MERGE) =>
            ytdlp[j] = NoHandle /\ j \notin tempDirs

\* C21: every job that is in the queue or whose task is executing has a
\* record in the progress map.
C21_RecordWhileQueuedOrExecuting ==
    \A j \in Jobs : (pc[j] = "queued" \/ Executing(j)) => HasRecord(j)

\* C22: once the task of a job has settled, whatever the outcome, no 30 minute
\* timer of the job is pending and neither downloadTimeouts nor
\* activeProcesses holds an entry for it.
C22_SettledLeavesNoTimerNoProcess ==
    \A j \in Jobs :
        pc[j] = "done" =>
            /\ timers[j] = 0
            /\ j \notin downloadTimeouts
            /\ j \notin DOMAIN activeProcesses

\* A job has settled after its timeout fired and another after a cancel.
C22_Witness ==
    /\ \E j \in Jobs :
          /\ pc[j] = "done" /\ HasRecord(j)
          /\ downloadProgress[j].message = "Download timeout (melebihi 30 menit)"
    /\ \E j \in cancelAcked :
          /\ pc[j] = "done" /\ HasRecord(j)
          /\ downloadProgress[j].status = "cancelled"

\* C23: once the task of a merging job has settled, whatever the outcome, its
\* scratch directory does not exist.
C23_ScratchDirRemoved ==
    \A j \in Jobs : pc[j] = "done" => j \notin tempDirs

\* A merge has succeeded through ffmpeg and another has failed in ffmpeg; both
\* had a scratch directory.
C23_Witness ==
    /\ \E j \in Jobs :
          /\ pc[j] = "done" /\ ffmpeg[j].state = "exited" /\ HasRecord(j)
          /\ downloadProgress[j].message = "Download dan merge selesai!"
    /\ \E j \in Jobs :
          /\ pc[j] = "done" /\ ffmpeg[j].state = "exited" /\ HasRecord(j)
          /\ downloadProgress[j].message = "Gagal menggabungkan file audio"

\* C24: while the task of a merging job is downloading or merging, and the
\* job is neither cancelled nor timed out, its scratch directory exists:
\* nothing but the job's own execution removes it.
C24_ScratchDirOwned ==
    \A j \in Jobs :
        (/\ pc[j] \in {"download", "merge"} /\ options[j].merge
         /\ ~IsCancelled(Cur, j)) => j \in tempDirs

\* C25: whenever the record of a job holds a status other than queued,
\* finished, error or cancelled, a worker process of the job is running and
\* activeProcesses holds the job's entry.
C25_ActiveStatusHasWorker ==
    \A j \in DOMAIN downloadProgress :
        downloadProgress[j].status \notin Terminal \cup {"queued"} =>
            /\ j \in DOMAIN activeProcesses
            /\ ytdlp[j].state = "running" \/ ffmpeg[j].state = "running"

\* C26: the progress of a record is 100 exactly when its status is finished,
\* and the write of finished replaced status finalizing.
C26_FullOnlyWhenFinished ==
    \A j \in DOMAIN downloadProgress :
        /\ downloadProgress[j].progress = 100 <=> downloadProgress[j].status = "finished"
        /\ downloadProgress[j].status = "finished" => preFinished[j] = "finalizing"

\* A job has finished while the download of another stands at its highest
\* percentage.
C26_Witness ==
    /\ \E j \in DOMAIN downloadProgress : downloadProgress[j].status = "finished"
    /\ \E j \in DOMAIN downloadProgress :
          /\ downloadProgress[j].status = "downloading_video"
          /\ downloadProgress[j].progress = 85

\* The partial records of the updates checked in every state.
Partials ==
    { [status |-> "downloading_video", progress |-> 17,
       message |-> "Mengunduh video: %"],
      [status |-> "queued", progress |-> 0,
       message |-> "Menunggu antrian... (Posisi)", queuePosition |-> 1],
      [status |-> "finished", progress |-> 100, message |-> "Download selesai!",
       canCancel |-> FALSE] }

\* C27: in every state, updateProgress(j, data) leaves a record of j that has
\* the value of data in every field of data, the old value in every other
\* field of the old record, the current time as timestamp and j as
\* downloadId; that record is appended to the frames of every connection
\* registered for j and of no other; the records of the other jobs are as
\* before.
C27_UpdateIsMerge ==
    \A j \in 1..MaxClockJobs, data \in Partials :
        LET old == IF HasRecord(j) THEN downloadProgress[j] ELSE <<>>
            t == updateProgress(Cur, j, data)
            new == t.downloadProgress[j]
        IN  /\ DOMAIN new = DOMAIN old \cup DOMAIN data \cup {"downloadId", "timestamp"}
            /\ \A f \in DOMAIN data : new[f] = data[f]
            /\ \A f \in DOMAIN old \ (DOMAIN data \cup {"timestamp"}) : new[f] = old[f]
            /\ new.timestamp = now
            /\ new.downloadId = j
            /\ \A c \in Clients :
                  t.frames[c] = IF j \in DOMAIN sseClients /\ c \in sseClients[j]
                                THEN Append(frames[c], new) ELSE frames[c]
            /\ DOMAIN t.downloadProgress = DOMAIN downloadProgress \cup {j}
            /\ \A k \in DOMAIN downloadProgress \ {j} :
                  t.downloadProgress[k] = downloadProgress[k]

\* Both connections follow job 1: an update made after the clock moved was
\* pushed to both as the full record, with the new timestamp and the
\* canCancel of the earlier record, while the record of job 2 kept its own.
C27_Witness ==
    /\ HasRecord(1) /\ HasRecord(2)
    /\ downloadProgress[2].timestamp = 0
    /\ \A c \in Clients :
          /\ conn[c].state = "open" /\ conn[c].id = 1
          /\ Len(frames[c]) >= 2
          /\ frames[c][1].status = "downloading_video"
          /\ frames[c][1].timestamp = 0
          /\ frames[c][Len(frames[c])] = downloadProgress[1]
    /\ downloadProgress[1].timestamp = 1
    /\ downloadProgress[1].status = "postprocessing"
    /\ downloadProgress[1].canCancel

\* The connection is in the subscriber set of the job it asked for.
Registered(clients, c, id) == id \in DOMAIN clients /\ c \in clients[id]

\* The records handed to the broadcast loop of job id, in order.
RecordsFor(p, id) ==
    LET sel == SelectSeq(p, LAMBDA e : e[1] = id)
    IN  [i \in 1..Len(sel) |-> sel[i][2]]

\* C28: the step that opens a connection writes it one frame, the record of
\* the job it asks for (or the unknown frame); and in every step through
\* which a connection stays registered for its job, the frames written to it
\* are the records of the job handed to the broadcast by that step, each
\* once and in the order of the updates.
C28_DeliveredInOrder ==
    [][\A c \in Clients :
          /\ (conn[c].state = "new" /\ conn'[c].state = "open") =>
                frames'[c] = Append(frames[c],
                                    IF HasRecord(conn'[c].id)
                                    THEN downloadProgress[conn'[c].id]
                                    ELSE UnknownFrame)
          /\ (/\ Registered(sseClients, c, conn[c].id)
              /\ Registered(sseClients', c, conn[c].id)) =>
                frames'[c] = frames[c] \o RecordsFor(pushed', conn[c].id)]_vars

\* A connection registered since the job was downloading has been written the
\* snapshot, then finalizing and finished by the one step that settled the
\* job, while the other connection on the job stayed registered too.
C28_Witness ==
    \E c, d \in Clients :
        /\ c # d /\ conn[c].id = conn[d].id
        /\ Registered(sseClients, c, conn[c].id)
        /\ Registered(sseClients, d, conn[d].id)
        /\ Len(pushed) = 2
        /\ Len(frames[c]) = 3
        /\ frames[c][1].status = "downloading_video"
        /\ frames[c][2].status = "finalizing"
        /\ frames[c][3].status = "finished"
        /\ Len(frames[d]) = 3

\* The state with every stalled or broken connection open.
Healthy(s) ==
    [s EXCEPT !.conn = [c \in Clients |->
                           IF WriteFails(s, c) THEN [@[c] EXCEPT !.state = "open"]
                           ELSE @[c]]]

\* The records, the queue and the executions.
JobState(s) ==
    <<s.downloadProgress, s.downloadQueue, s.activeDownloads, s.activeProcesses,
      s.pc, s.ytdlp, s.timers, s.downloadTimeouts, s.cleanupTimers,
      s.progressCleanupTimers, s.started>>

\* C29: a connection the server has ended is in no subscriber set; and in
\* every state, an update of a job with subscribers removes from the set, and
\* ends, exactly the connections whose write fails, writes the record to the
\* others and keeps them, and leaves the records, the queue and the
\* executions as the same update does when every write succeeds.  So does
\* the 'close' handler of a running worker.
C29_WriteFailureContained ==
    /\ \A c \in Clients, j \in DOMAIN sseClients :
          conn[c].state \in {"ended", "closed"} => c \notin sseClients[j]
    /\ \A j \in DOMAIN sseClients, data \in Partials :
          LET t == updateProgress(Cur, j, data)
              h == updateProgress(Healthy(Cur), j, data)
          IN  /\ JobState(t) = JobState(h)
              /\ \A c \in sseClients[j] :
                    IF WriteFails(Cur, c)
                    THEN /\ ~Registered(t.sseClients, c, j)
                         /\ t.conn[c].state = "ended"
                    ELSE /\ Registered(t.sseClients, c, j)
                         /\ t.frames[c] = Append(frames[c], t.downloadProgress[j])
    /\ \A j \in Jobs, code \in {0, 1} :
          (pc[j] = "download" /\ ytdlp[j].state = "running") =>
              JobState(onYtdlpClose(Cur, j, code, 0))
                  = JobState(onYtdlpClose(Healthy(Cur), j, code, 0))

\* A connection was ended by a broadcast and holds none of the later
\* records, which the other connection on the job has been written; the job
\* has finished.
C29_Witness ==
    \E c, d \in Clients :
        /\ conn[c].state = "ended" /\ conn[d].state = "open"
        /\ conn[c].id = conn[d].id
        /\ Registered(sseClients, d, conn[d].id)
        /\ HasRecord(conn[d].id)
        /\ downloadProgress[conn[d].id].status = "finished"
        /\ frames[d][Len(frames[d])] = downloadProgress[conn[d].id]
        /\ frames[c][Len(frames[c])].status \notin {"finalizing", "finished", "unknown"}

\* C30: for a running download worker of a job that is not flagged cancelled,
\* the 'error' handler leaves status error with the spawn message and the
\* 'close' handler with a non-zero code leaves status error with the generic
\* message; and the record of a job whose cancel while active was answered
\* success holds status cancelled and neither of those messages.
C30_OutcomesDistinguishable ==
    \A j \in Jobs :
        /\ (pc[j] = "download" /\ ytdlp[j].state = "running" /\ ~IsCancelled(Cur, j)) =>
              /\ ytdlp[j].signals = {} =>
                    /\ onYtdlpError(Cur, j).downloadProgress[j].status = "error"
                    /\ onYtdlpError(Cur, j).downloadProgress[j].message = "yt-dlp error"
              /\ onYtdlpClose(Cur, j, 1, 0).downloadProgress[j].status = "error"
              /\ onYtdlpClose(Cur, j, 1, 0).downloadProgress[j].message
                     \in {"Download video gagal", "Download audio gagal"}
        /\ (j \in cancelAcked /\ HasRecord(j)) =>
              /\ downloadProgress[j].status = "cancelled"
              /\ downloadProgress[j].message
                     \notin {"yt-dlp error", "Download video gagal", "Download audio gagal"}

\* C31: the file list of a finished record holds only files that the job's
\* own worker wrote.
C31_OwnFilesOnly ==
    \A j \in Jobs :
        (HasRecord(j) /\ downloadProgress[j].status = "finished") =>
            \A i \in 1..Len(downloadProgress[j].files) :
                downloadProgress[j].files[i].owner = j

\* C32: when a job waits in the queue, the active count equals the
\* concurrency ceiling.
C32_WorkConserving ==
    Len(downloadQueue) > 0 => activeDownloads = MAX_CONCURRENT_DOWNLOADS

\* A job waits behind two executing ones after submits, a cancel of an
\* active job and a settlement have completed.
C32_Witness ==
    /\ Len(downloadQueue) > 0
    /\ Cardinality(ActiveExecutions) = MAX_CONCURRENT_DOWNLOADS
    /\ \E j \in cancelAcked : pc[j] = "done"

\* C33: activeDownloads is the number of tasks invoked and not settled, it
\* is never negative, and a cancel or a timeout of an executing job leaves it
\* as it is.
C33_SlotAccounting ==
    /\ activeDownloads = Cardinality(ActiveExecutions)
    /\ activeDownloads >= 0
    /\ \A j \in ActiveExecutions :
           /\ onCancel(Cur, j).activeDownloads = activeDownloads
           /\ timeoutCallback(Cur, j).activeDownloads = activeDownloads

\* A job cancelled while active still executes and is counted, after the
\* settlement of another job.
C33_Witness ==
    /\ \E j \in cancelAcked : Executing(j)
    /\ \E j \in Jobs : pc[j] = "done"
    /\ activeDownloads = MAX_CONCURRENT_DOWNLOADS

\* C34: a job is in the queue exactly when its record holds status queued,
\* no id is in the queue twice, and no queued id is in activeProcesses.
C34_QueueRecordAgreement ==
    /\ \A j \in Jobs :
           j \in Range(downloadQueue) <=>
               (HasRecord(j) /\ downloadProgress[j].status = "queued")
    /\ \A a, b \in 1..Len(downloadQueue) :
           a # b => downloadQueue[a] # downloadQueue[b]
    /\ Range(downloadQueue) \cap DOMAIN activeProcesses = {}

\* A job waits in the queue behind one that has left it by a cancel, and
\* two jobs have left it by promotion.
C34_Witness ==
    /\ Len(downloadQueue) = 1
    /\ \E j \in Jobs :
           /\ pc[j] = "dropped" /\ downloadProgress[j].status = "cancelled"
           /\ j < downloadQueue[1]
    /\ Cardinality(DOMAIN activeProcesses) = MAX_CONCURRENT_DOWNLOADS

\* C35: an executing job that was cancelled or timed out eventually settles,
\* which gives its slot back and promotes the next queued job.
C35_SlotReleased ==
    \A j \in Jobs :
        (j \in DOMAIN activeProcesses /\ activeProcesses[j].cancelled) ~> (pc[j] = "done")

\* C36: every job id present in the subscriber map maps to a set with at
\* least one member.
C36_NoEmptySubscriberSet ==
    \A j \in DOMAIN sseClients : sseClients[j] # {}

\* The set of a job has been left by one connection through its close, by
\* one through a failed heartbeat or a failed broadcast write, and the job is
\* no longer in the map.
C36_Witness ==
    \E c, d \in Clients :
        /\ c # d /\ conn[c].id = conn[d].id
        /\ conn[c].state = "closed"
        /\ conn[d].state \in {"broken", "ended"} /\ ~conn[d].heartbeat
        /\ HasRecord(conn[c].id)
        /\ conn[c].id \notin DOMAIN sseClients

\* C37: an /api/info request is never sent two responses, and it has been
\* sent one when the handler has rejected it, and when its 30 second timer
\* is no longer pending (it has fired, or a close or an error cleared it).
C37_ExactlyOneResponse ==
    \A r \in InfoRequests :
        /\ Len(info[r].sent) <= 1
        /\ (info[r].state # "none" /\ ~info[r].timeout) => Len(info[r].sent) = 1
        /\ info[r].responded <=> (info[r].state # "rejected" /\ Len(info[r].sent) = 1)

\* One request was answered by its timer and the close of the killed worker
\* came after it; the other was answered by the error of a failed spawn,
\* and the close came after it.
C37_Witness ==
    \E r, q \in InfoRequests :
        /\ info[r].state = "closed" /\ info[r].sent = <<504>>
        /\ "SIGTERM" \in info[r].ytdlp.signals
        /\ info[q].state = "closed" /\ info[q].errored /\ info[q].sent = <<500>>

\* C38: the step of the graceful shutdown leaves every running process of a
\* job in activeProcesses signalled and the job without scratch directory,
\* no 30 minute timer and no progress cleanup timer pending, and every
\* connection of a subscriber set ended; it starts no job, and no job is
\* started after it.
C38_GracefulShutdown ==
    [][/\ (exited' /\ ~exited) =>
            /\ \A j \in DOMAIN activeProcesses :
                   /\ ytdlp[j].state = "running" =>
                          ytdlp'[j].state = "running" /\ ytdlp'[j].signals # {}
                   /\ ffmpeg[j].state = "running" =>
                          ffmpeg'[j].state = "running" /\ ffmpeg'[j].signals # {}
                   /\ j \notin tempDirs'
            /\ \A j \in Jobs : timers'[j] = 0 /\ cleanupTimers'[j] = 0
            /\ \A j \in DOMAIN sseClients : \A c \in sseClients[j] :
                   conn'[c].state = "ended"
            /\ started' = started /\ downloadQueue' = downloadQueue /\ pc' = pc
       /\ exited => (exited' /\ started' = started /\ pc' = pc)]_vars

\* The process has exited with a job waiting in the queue, a merge running
\* in ffmpeg and signalled at the exit, and a connection ended.
C38_Witness ==
    /\ exited
    /\ Len(downloadQueue) > 0
    /\ \E j \in DOMAIN activeProcesses :
           /\ ffmpeg[j].state = "running" /\ "SIGTERM" \in ffmpeg[j].signals
           /\ j \notin cancelAcked
    /\ \E c \in Clients : conn[c].state = "ended"
    /\ \A j \in Jobs : timers[j] = 0

\* C39: waitForServer makes at most maxAttempts polls, never has two checks
\* scheduled, rejects only after maxAttempts polls, and while its promise is
\* pending a check is scheduled or a request is in flight.
C39_WaitSettles ==
    /\ wait.polls <= wait.maxAttempts
    /\ wait.scheduled <= 1
    /\ wait.promise = "rejected" => wait.polls = wait.maxAttempts
    /\ wait.promise = "pending" => wait.scheduled + wait.inflight > 0

============================================================================
